---- MODULE Spec2Model ----
(***************************************************************************)
(* ROICaseBuilder: the merge engine (backend/orchestrator/merge.py) and    *)
(* the calculation engine (backend/engine/calculator.py).                  *)
(*                                                                         *)
(* Numbers are exact: a float is modelled by an integer in a fixed unit,   *)
(* so the arithmetic is that of the reals.  A Python value is a tagged     *)
(* record (a float or a str); float() is modelled as the conversion it is. *)
(***************************************************************************)
EXTENDS Integers, Sequences, FiniteSets, TLC

(***************************************************************************)
(* Bounds                                                                  *)
(***************************************************************************)
MaxSecondaries == 2

\* the data fields of CompanyData the merge model ranges over (2 of the 19)
DataFieldNames == <<"annual_revenue", "online_revenue">>

Fields == {DataFieldNames[i] : i \in 1..Len(DataFieldNames)}

(***************************************************************************)
(* models/enums.py, models/audit.py                                        *)
(***************************************************************************)
DataSourceTier == {"estimated", "cross_industry", "industry_benchmark", "company_reported"}

_TIER_RANK == [t \in DataSourceTier |->
                 CASE t = "estimated" -> 0
                   [] t = "cross_industry" -> 1
                   [] t = "industry_benchmark" -> 2
                   [] t = "company_reported" -> 3]

\* Python values: a float (an exact number here) or a str
Num(n) == [type |-> "float", num |-> n, text |-> ""]

Str(s) == [type |-> "str", num |-> 0, text |-> s]

\* the strings float() parses, with the number each parses to
NumericText == [s \in {"80"} |-> 80]

\* float(v): the number, or a raised TypeError/ValueError
ToFloat(v) ==
    IF v.type = "float" THEN [ok |-> TRUE, num |-> v.num]
    ELSE IF v.text \in DOMAIN NumericText
         THEN [ok |-> TRUE, num |-> NumericText[v.text]]
         ELSE [ok |-> FALSE, num |-> 0]

\* Optional[DataPoint]
None == <<>>

Some(dp) == <<dp>>

DataPoint(v, t, src) == [value |-> v, confidence_tier |-> t, source |-> src]

CompanyData(name, ind, d) == [company_name |-> name, industry |-> ind, data |-> d]

(***************************************************************************)
(* orchestrator/merge.py                                                   *)
(***************************************************************************)
Abs(x) == IF x < 0 THEN -x ELSE x

Max(x, y) == IF x >= y THEN x ELSE y

\* the review threshold 0.10, in percent
DiscrepancyThresholdPct == 10

\* _discrepancy_pct(a, b) as the fraction num/den (0/1 when both are zero)
_discrepancy_pct(a, b) ==
    IF a = 0 /\ b = 0 THEN [num |-> 0, den |-> 1]
    ELSE [num |-> Abs(a - b), den |-> Max(Abs(a), Abs(b))]

\* faulty variant: the later DataPoint always wins (recency)
PickWinnerLatest(dp_a, dp_b) == dp_b

\* faulty variant: the later DataPoint wins a tie
PickWinnerLastOnTie(dp_a, dp_b) ==
    IF _TIER_RANK[dp_a.confidence_tier] > _TIER_RANK[dp_b.confidence_tier]
    THEN dp_a ELSE dp_b

_pick_winner(dp_a, dp_b) ==
    IF _TIER_RANK[dp_a.confidence_tier] >= _TIER_RANK[dp_b.confidence_tier]
    THEN dp_a ELSE dp_b

\* faulty variant: flags at the threshold itself (>= 0.10)
FlaggedAtThreshold(existing_dp, sec_dp) ==
    LET v1 == ToFloat(existing_dp.value)
        v2 == ToFloat(sec_dp.value)
        disc == _discrepancy_pct(v1.num, v2.num)
    IN  v1.ok /\ v2.ok /\ disc.num * 100 >= DiscrepancyThresholdPct * disc.den

\* faulty variant: the except clause flags the entry
FlaggedOnFailure(existing_dp, sec_dp) ==
    LET v1 == ToFloat(existing_dp.value)
        v2 == ToFloat(sec_dp.value)
        disc == _discrepancy_pct(v1.num, v2.num)
    IN  ~v1.ok \/ ~v2.ok \/ disc.num * 100 > DiscrepancyThresholdPct * disc.den

\* the try block: flagged iff both values convert and disc > 0.10
Flagged(existing_dp, sec_dp) ==
    LET v1 == ToFloat(existing_dp.value)
        v2 == ToFloat(sec_dp.value)
        disc == _discrepancy_pct(v1.num, v2.num)
    IN  v1.ok /\ v2.ok /\ disc.num * 100 > DiscrepancyThresholdPct * disc.den

\* faulty variant: the entry records the loser's value as the chosen one
ConflictEntryChosenLoser(fname, existing_dp, sec_dp, winner, loser, flagged) ==
    [field_name |-> fname,
     primary_value |-> existing_dp.value,
     primary_source |-> existing_dp.source,
     primary_tier |-> existing_dp.confidence_tier,
     secondary_value |-> sec_dp.value,
     secondary_source |-> sec_dp.source,
     secondary_tier |-> sec_dp.confidence_tier,
     resolution |-> <<winner.confidence_tier, loser.confidence_tier>>,
     chosen_value |-> loser.value,
     flagged_for_cp |-> flagged]

ConflictEntry(fname, existing_dp, sec_dp, winner, loser, flagged) ==
    [field_name |-> fname,
     primary_value |-> existing_dp.value,
     primary_source |-> existing_dp.source,
     primary_tier |-> existing_dp.confidence_tier,
     secondary_value |-> sec_dp.value,
     secondary_source |-> sec_dp.source,
     secondary_tier |-> sec_dp.confidence_tier,
     resolution |-> <<winner.confidence_tier, loser.confidence_tier>>,
     chosen_value |-> winner.value,
     flagged_for_cp |-> flagged]

\* faulty variant: a conflict is recorded only when the two values differ
MergeFieldOnlyDisagreements(acc, sec, fname) ==
    LET sec_opt == sec.data[fname]
        existing_opt == acc.data[fname]
    IN  IF sec_opt = None THEN acc
        ELSE IF existing_opt = None
             THEN [acc EXCEPT !.data[fname] = sec_opt]
             ELSE LET existing_dp == existing_opt[1]
                      sec_dp == sec_opt[1]
                      winner == _pick_winner(existing_dp, sec_dp)
                      loser == IF winner = existing_dp THEN sec_dp ELSE existing_dp
                      flagged == Flagged(existing_dp, sec_dp)
                  IN  [data |-> [acc.data EXCEPT ![fname] = Some(winner)],
                       conflicts |->
                          IF existing_dp.value = sec_dp.value THEN acc.conflicts
                          ELSE Append(acc.conflicts,
                                  ConflictEntry(fname, existing_dp, sec_dp,
                                                winner, loser, flagged))]

\* the body of the inner loop: one field of one secondary
MergeField(acc, sec, fname) ==
    LET sec_opt == sec.data[fname]
        existing_opt == acc.data[fname]
    IN  IF sec_opt = None THEN acc
        ELSE IF existing_opt = None
             THEN [acc EXCEPT !.data[fname] = sec_opt]
             ELSE LET existing_dp == existing_opt[1]
                      sec_dp == sec_opt[1]
                      winner == _pick_winner(existing_dp, sec_dp)
                      loser == IF winner = existing_dp THEN sec_dp ELSE existing_dp
                      flagged == Flagged(existing_dp, sec_dp)
                  IN  [data |-> [acc.data EXCEPT ![fname] = Some(winner)],
                       conflicts |-> Append(acc.conflicts,
                                        ConflictEntry(fname, existing_dp, sec_dp,
                                                      winner, loser, flagged))]

RECURSIVE MergeFieldsFrom(_, _, _)
\* for fname in data_field_names, from the i-th on
MergeFieldsFrom(acc, sec, i) ==
    IF i > Len(DataFieldNames) THEN acc
    ELSE MergeFieldsFrom(MergeField(acc, sec, DataFieldNames[i]), sec, i + 1)

Reverse(s) == [i \in 1..Len(s) |-> s[Len(s) + 1 - i]]

\* faulty variant: the secondaries are folded last to first
SecondaryOrderReversed(secondaries) == Reverse(secondaries)

\* for secondary in secondaries: input order
SecondaryOrder(secondaries) == secondaries

RECURSIVE MergeSecondariesFrom(_, _, _)
MergeSecondariesFrom(acc, secs, k) ==
    IF k > Len(secs) THEN acc
    ELSE MergeSecondariesFrom(MergeFieldsFrom(acc, secs[k], 1), secs, k + 1)

\* the value merge_company_data returns, from the records themselves
merge_company_data(primary, secondaries) ==
    LET seeded == [data |-> [f \in Fields |-> primary.data[f]],
                   conflicts |-> <<>>]
        folded == MergeSecondariesFrom(seeded, SecondaryOrder(secondaries), 1)
    IN  [merged |-> CompanyData(primary.company_name, primary.industry, folded.data),
         conflicts |-> folded.conflicts]

(***************************************************************************)
(* kpi_library/registry.py, kpi_library/formulas.py                        *)
(*                                                                         *)
(* Units: a benchmark and a confidence discount are in tenths, a weight in *)
(* hundredths, a realization percentage in tenths.  raw_impact is kept in  *)
(* tenths, adjusted_impact in hundredths, weighted_impact in ten-          *)
(* thousandths, a projected impact in thousandths of the input unit.       *)
(***************************************************************************)
\* the registered KPIs the model ranges over (2 of the 5)
_REGISTRY ==
    [id \in {"conversion_rate_lift", "support_cost_savings"} |->
        IF id = "conversion_rate_lift"
        THEN [id |-> id,
              required_inputs |-> <<"online_revenue">>,
              benchmark_input |-> "lift_percentage",
              category |-> "revenue"]
        ELSE [id |-> id,
              required_inputs |-> <<"current_support_contacts", "cost_per_contact">>,
              benchmark_input |-> "reduction_percentage",
              category |-> "cost_savings"]]

get_kpi(kpi_id) == IF kpi_id \in DOMAIN _REGISTRY THEN Some(_REGISTRY[kpi_id]) ELSE None

Raised(msg) == [ok |-> FALSE, raw |-> 0, error |-> msg]

Returns(x) == [ok |-> TRUE, raw |-> x, error |-> ""]

\* 0 <= benchmark <= 1.0, the benchmark in tenths
InUnitRange(b) == 0 <= b /\ b <= 10

\* faulty variant: a negative online_revenue is not rejected
CalcConversionRateLiftUnchecked(online_revenue, lift_percentage) ==
    IF online_revenue.type # "float" THEN Raised("TypeError")
    ELSE IF ~InUnitRange(lift_percentage) THEN Raised("lift_percentage must be 0-1.0")
    ELSE Returns(online_revenue.num * lift_percentage)

\* calc_conversion_rate_lift; comparing a str with 0 raises TypeError
calc_conversion_rate_lift(online_revenue, lift_percentage) ==
    IF online_revenue.type # "float" THEN Raised("TypeError")
    ELSE IF online_revenue.num < 0 THEN Raised("online_revenue cannot be negative")
    ELSE IF ~InUnitRange(lift_percentage) THEN Raised("lift_percentage must be 0-1.0")
    ELSE Returns(online_revenue.num * lift_percentage)

\* calc_support_cost_savings
calc_support_cost_savings(current_support_contacts, cost_per_contact, reduction_percentage) ==
    IF current_support_contacts.type # "float" THEN Raised("TypeError")
    ELSE IF current_support_contacts.num < 0
         THEN Raised("current_support_contacts cannot be negative")
    ELSE IF cost_per_contact.type # "float" THEN Raised("TypeError")
    ELSE IF cost_per_contact.num < 0 THEN Raised("cost_per_contact cannot be negative")
    ELSE IF ~InUnitRange(reduction_percentage)
         THEN Raised("reduction_percentage must be 0-1.0")
    ELSE Returns(current_support_contacts.num * reduction_percentage * cost_per_contact.num)

\* kpi_def.formula_fn(**kwargs)
formula_fn(kpi_id, kwargs, benchmark_value) ==
    IF kpi_id = "conversion_rate_lift"
    THEN calc_conversion_rate_lift(kwargs["online_revenue"], benchmark_value)
    ELSE calc_support_cost_savings(kwargs["current_support_contacts"],
                                   kwargs["cost_per_contact"], benchmark_value)

(***************************************************************************)
(* methodology/schema.py                                                   *)
(***************************************************************************)
Scenario == <<"conservative", "moderate", "aggressive">>

BenchmarkRanges(c, m, a) == [conservative |-> c, moderate |-> m, aggressive |-> a]

\* Field(ge=0) on each value and conservative_le_moderate_le_aggressive
BenchmarkRangesValid(b) ==
    /\ b.conservative >= 0 /\ b.moderate >= 0 /\ b.aggressive >= 0
    /\ b.conservative <= b.moderate /\ b.moderate <= b.aggressive

KPIConfig(id, w, ins, b, en) ==
    [id |-> id, weight |-> w, inputs |-> ins, benchmark_ranges |-> b, enabled |-> en]

\* weight in [0, 1], id_must_be_registered, valid benchmark_ranges
KPIConfigValid(k) ==
    /\ 0 <= k.weight /\ k.weight <= 100
    /\ get_kpi(k.id) # None
    /\ BenchmarkRangesValid(k.benchmark_ranges)

\* ConfidenceDiscounts defaults 1.0, 0.8, 0.6, 0.4
DefaultDiscounts ==
    [t \in DataSourceTier |->
        CASE t = "company_reported" -> 10
          [] t = "industry_benchmark" -> 8
          [] t = "cross_industry" -> 6
          [] t = "estimated" -> 4]

get_discount(discounts, tier_value) == discounts[tier_value]

\* faulty variant: the second loop (non-decreasing) is left out
CurveValidUnordered(v) ==
    /\ Len(v) >= 1
    /\ \A i \in 1..Len(v) : 0 < v[i] /\ v[i] <= 10

\* curve_values_valid, with min_length=1
CurveValid(v) ==
    /\ Len(v) >= 1
    /\ \A i \in 1..Len(v) : 0 < v[i] /\ v[i] <= 10
    /\ \A i \in 2..Len(v) : v[i] >= v[i - 1]

RECURSIVE SumSeq(_)
SumSeq(s) == IF s = <<>> THEN 0 ELSE Head(s) + SumSeq(Tail(s))

IsEnabled(k) == k.enabled

enabled_kpis(config) == SelectSeq(config.kpis, IsEnabled)

total_weight(config) ==
    SumSeq([i \in 1..Len(enabled_kpis(config)) |-> enabled_kpis(config)[i].weight])

\* the weight tolerance 0.01, in hundredths
WeightTolerance == 1

\* faulty variant: the weights of disabled KPIs are counted too
WeightsValidAllKpis(config) ==
    enabled_kpis(config) = <<>>
    \/ Abs(SumSeq([i \in 1..Len(config.kpis) |-> config.kpis[i].weight]) - 100)
          <= WeightTolerance

\* kpi_weights_sum_to_one
WeightsValid(config) ==
    enabled_kpis(config) = <<>> \/ Abs(total_weight(config) - 100) <= WeightTolerance

\* MethodologyConfig.model_validate succeeds
Validated(config) ==
    /\ Len(config.kpis) >= 1
    /\ \A i \in 1..Len(config.kpis) : KPIConfigValid(config.kpis[i])
    /\ CurveValid(config.realization_curve)
    /\ \A t \in DataSourceTier :
          0 <= config.confidence_discounts[t] /\ config.confidence_discounts[t] <= 10
    /\ WeightsValid(config)

\* MethodologyConfig.required_inputs
required_inputs(config) ==
    UNION {{enabled_kpis(config)[i].inputs[j] :
               j \in 1..Len(enabled_kpis(config)[i].inputs)} :
           i \in 1..Len(enabled_kpis(config))}

(***************************************************************************)
(* engine/calculator.py                                                    *)
(***************************************************************************)
\* CompanyData.get(field_name)
Get(company_data, field_name) ==
    IF field_name \in DOMAIN company_data.data THEN company_data.data[field_name] ELSE None

\* CompanyData.available_fields
available_fields(company_data) ==
    {f \in DOMAIN company_data.data : company_data.data[f] # None}

SeqToSet(s) == {s[i] : i \in 1..Len(s)}

NotFound == [kind |-> "not_found", fields |-> <<>>, message |-> "not found in registry"]

MissingInputs(missing) ==
    [kind |-> "missing", fields |-> missing, message |-> "Missing required inputs"]

FormulaError(msg) == [kind |-> "formula", fields |-> <<>>, message |-> msg]

\* _skipped_entry
_skipped_entry(kpi_config, reason) ==
    [kpi_id |-> kpi_config.id,
     inputs_used |-> <<>>,
     input_tiers |-> <<>>,
     benchmark_value |-> 0,
     raw_impact |-> 0,
     confidence_discount |-> 0,
     adjusted_impact |-> 0,
     weight |-> kpi_config.weight,
     weighted_impact |-> 0,
     category |-> "unknown",
     skipped |-> TRUE,
     skip_reason |-> Some(reason)]

Min(S) == CHOOSE x \in S : \A y \in S : x <= y

\* faulty variant: the strongest input governs (max instead of min)
ComputeConfidenceMax(input_data_points, config) ==
    IF DOMAIN input_data_points = {} THEN config.confidence_discounts["estimated"]
    ELSE LET ds == {get_discount(config.confidence_discounts,
                                 input_data_points[f].confidence_tier) :
                       f \in DOMAIN input_data_points}
         IN  CHOOSE x \in ds : \A y \in ds : x >= y

\* _compute_confidence: input_data_points maps field name to DataPoint
_compute_confidence(input_data_points, config) ==
    IF DOMAIN input_data_points = {} THEN config.confidence_discounts["estimated"]
    ELSE Min({get_discount(config.confidence_discounts,
                           input_data_points[f].confidence_tier) :
                 f \in DOMAIN input_data_points})

\* _calculate_single_kpi
_calculate_single_kpi(company_data, kpi_config, config, scenario) ==
    IF get_kpi(kpi_config.id) = None THEN _skipped_entry(kpi_config, NotFound)
    ELSE
    LET kpi_def == get_kpi(kpi_config.id)[1]
        Absent(f) == Get(company_data, f) = None
        missing == SelectSeq(kpi_def.required_inputs, Absent)
    IN  IF missing # <<>> THEN _skipped_entry(kpi_config, MissingInputs(missing))
        ELSE
        LET input_data_points ==
                [f \in SeqToSet(kpi_def.required_inputs) |-> Get(company_data, f)[1]]
            benchmark_value == kpi_config.benchmark_ranges[scenario]
            kwargs == [f \in DOMAIN input_data_points |-> input_data_points[f].value]
            res == formula_fn(kpi_config.id, kwargs, benchmark_value)
        IN  IF ~res.ok THEN _skipped_entry(kpi_config, FormulaError(res.error))
            ELSE
            LET confidence_multiplier == _compute_confidence(input_data_points, config)
                adjusted_impact == res.raw * confidence_multiplier
            IN  [kpi_id |-> kpi_config.id,
                 inputs_used |-> kwargs,
                 input_tiers |-> [f \in DOMAIN input_data_points |->
                                     input_data_points[f].confidence_tier],
                 benchmark_value |-> benchmark_value,
                 raw_impact |-> res.raw,
                 confidence_discount |-> confidence_multiplier,
                 adjusted_impact |-> adjusted_impact,
                 weight |-> kpi_config.weight,
                 weighted_impact |-> adjusted_impact * kpi_config.weight,
                 category |-> kpi_def.category,
                 skipped |-> FALSE,
                 skip_reason |-> None]

RECURSIVE _project_from(_, _, _, _)
\* the loop of _project_multi_year from year i on, cumulative so far
_project_from(total_annual_impact, realization_curve, i, cumulative) ==
    IF i > Len(realization_curve) THEN <<>>
    ELSE LET year_impact == total_annual_impact * realization_curve[i]
         IN  <<[year |-> i,
                realization_percentage |-> realization_curve[i],
                projected_impact |-> year_impact,
                cumulative_impact |-> cumulative + year_impact]>>
             \o _project_from(total_annual_impact, realization_curve, i + 1,
                              cumulative + year_impact)

\* faulty variant: the first year of the curve is not projected
ProjectFromSecondYear(total_annual_impact, realization_curve) ==
    _project_from(total_annual_impact, realization_curve, 2, 0)

_project_multi_year(total_annual_impact, realization_curve) ==
    _project_from(total_annual_impact, realization_curve, 1, 0)

\* faulty variant: skipped entries are aggregated too
NotSkippedAll(e) == TRUE

NotSkipped(e) == ~e.skipped

\* faulty variant: no entry counts as skipped when skipped_kpis is collected
WasSkippedNever(e) == FALSE

WasSkipped(e) == e.skipped

\* faulty variant: a zero engagement cost counts as a cost
CostIsNonNegative(engagement_cost_dp) ==
    engagement_cost_dp # None /\ engagement_cost_dp[1].value.num >= 0

\* engagement_cost_dp is not None and engagement_cost_dp.value > 0
CostIsPositive(engagement_cost_dp) ==
    engagement_cost_dp # None /\ engagement_cost_dp[1].value.num > 0

\* _run_scenario: the ScenarioResult, or the TypeError that
\* engagement_cost_dp.value > 0 raises on a str
_run_scenario(company_data, config, scenario) ==
    LET kpis == enabled_kpis(config)
        kpi_results == [i \in 1..Len(kpis) |->
                           _calculate_single_kpi(company_data, kpis[i], config, scenario)]
        skipped == SelectSeq(kpi_results, WasSkipped)
        computed == SelectSeq(kpi_results, NotSkipped)
        total_unweighted == SumSeq([i \in 1..Len(computed) |-> computed[i].adjusted_impact])
        total_weighted == SumSeq([i \in 1..Len(computed) |-> computed[i].weighted_impact])
        OfCategory(cat) == {i \in 1..Len(computed) : computed[i].category = cat}
        RECURSIVE SumOver(_)
        SumOver(S) == IF S = {} THEN 0
                      ELSE LET i == CHOOSE j \in S : TRUE
                           IN  computed[i].adjusted_impact + SumOver(S \ {i})
        impact_by_category ==
            [cat \in {computed[i].category : i \in 1..Len(computed)} |->
                SumOver(OfCategory(cat))]
        year_projections == _project_multi_year(total_unweighted, config.realization_curve)
        cumulative == SumSeq([i \in 1..Len(year_projections) |->
                                 year_projections[i].projected_impact])
        engagement_cost_dp == Get(company_data, "engagement_cost")
        has_cost == CostIsPositive(engagement_cost_dp)
        cost == engagement_cost_dp[1].value.num
    IN  IF engagement_cost_dp # None /\ engagement_cost_dp[1].value.type # "float"
        THEN [raised |-> TRUE, error |-> "TypeError"]
        ELSE [raised |-> FALSE,
              error |-> "",
              scenario |-> scenario,
              kpi_results |-> kpi_results,
              total_annual_impact |-> total_weighted,
              total_annual_impact_unweighted |-> total_unweighted,
              impact_by_category |-> impact_by_category,
              year_projections |-> year_projections,
              cumulative_3yr_impact |-> cumulative,
              roi_percentage |->
                 IF has_cost THEN Some(<<total_unweighted - 100 * cost, cost>>) ELSE None,
              roi_multiple |->
                 IF has_cost THEN Some(<<total_unweighted, 100 * cost>>) ELSE None,
              engagement_cost |-> IF has_cost THEN Some(cost) ELSE None,
              skipped_kpis |-> [i \in 1..Len(skipped) |-> skipped[i].kpi_id]]

\* the field names in sorted() order
FieldRank ==
    [f \in {"cost_per_contact", "current_support_contacts", "engagement_cost",
            "online_revenue"} |->
        CASE f = "cost_per_contact" -> 1
          [] f = "current_support_contacts" -> 2
          [] f = "engagement_cost" -> 3
          [] f = "online_revenue" -> 4]

RECURSIVE Sorted(_)
Sorted(S) ==
    IF S = {} THEN <<>>
    ELSE LET f == CHOOSE x \in S : \A y \in S : FieldRank[x] <= FieldRank[y]
         IN  <<f>> \o Sorted(S \ {f})

(***************************************************************************)
(* State                                                                   *)
(***************************************************************************)
VARIABLES
    heap,        \* the CompanyData objects, by reference (index)
    inputs,      \* the input records as they were passed in
    pc,          \* the position of the merge client
    merged,      \* reference returned by merge(primary, *secondaries); 0 before
    conflicts,   \* the conflict list returned by the latest call
    inter,       \* reference returned by merge(primary, first secondary)
    twostep,     \* reference returned by merge(inter, *rest)
    order,       \* the order of the secondaries in the reordered call
    reordered,   \* reference returned by the reordered call
    raw,               \* the dict load_methodology read from the file, None if none
    company_data,      \* the record passed to calculate
    methodology,       \* the validated MethodologyConfig passed to calculate
    cpc,               \* the position of calculate
    pre,               \* the completeness pre-step: required, available, missing, ...
    scenario_results,  \* the ScenarioResults built so far, in scenarios_to_run order
    result,            \* the CalculationResult returned, None before
    error,             \* the exception calculate raised, "" if none
    company_name,      \* the company_name passed to gather
    gpc,               \* the position of gather
    company_type,      \* classify_company(company_name), None before
    primary_data,      \* gather's local primary_data
    secondary_data,    \* gather's local secondary_data
    calls,             \* the provider fetch calls made, with their outcome
    gathered,          \* the (merged, conflicts) pair gather returned, None before
    gather_error,      \* the exception gather raised, "" if none
    _subscribers,      \* StreamManager._subscribers: the queues of each case
    _buffers,          \* StreamManager._buffers: the events emitted for each case
    queues,            \* the content of each client's asyncio.Queue
    gens,              \* each client: its case, its position, what it was yielded
    _seq,              \* CPROIOrchestrator._seq of the pipeline of each case
    finished           \* whether the pipeline of a case emitted its terminal event

mvars == <<heap, inputs, pc, merged, conflicts, inter, twostep, order, reordered>>

cvars == <<raw, company_data, methodology, cpc, pre, scenario_results, result, error>>

gvars == <<company_name, gpc, company_type, primary_data, secondary_data, calls,
           gathered, gather_error>>

svars == <<_subscribers, _buffers, queues, gens, _seq, finished>>

vars == <<mvars, cvars, gvars, svars>>

(***************************************************************************)
(* Input records of the merge                                              *)
(***************************************************************************)
\* the provider each input record comes from (DataSourceType values)
SourceOf(i) ==
    CASE i = 1 -> "valyu_sec_filing"
      [] i = 2 -> "websearch_benchmark"
      [] i = 3 -> "firecrawl_crunchbase"
      [] OTHER -> "manual_override"

NameOf(i) == IF i = 1 THEN "Nike" ELSE "NIKE Inc"

\* "tiers": every tier, one value per record, both fields;
\* "values": every kind of value, two tiers, one field
Shapes == {"tiers", "values"}

MergeValues == {Num(0), Num(80), Num(90), Num(95), Num(100), Str("80"), Str("n/a")}

PoolValues(shape, i) ==
    IF shape = "tiers" THEN {Num(100 + 10 * (i - 1))} ELSE MergeValues

PoolTiers(shape, f) ==
    IF shape = "tiers"
    THEN (IF f = "annual_revenue" THEN DataSourceTier
          ELSE {"estimated", "company_reported"})
    ELSE (IF f = "annual_revenue" THEN {"estimated", "company_reported"} ELSE {})

Pool(shape, i, f) ==
    {None} \cup {Some(DataPoint(v, t, SourceOf(i))) :
                    v \in PoolValues(shape, i), t \in PoolTiers(shape, f)}

InputRecords(shape, i) ==
    {CompanyData(NameOf(i), "retail",
                 [f \in Fields |-> IF f = "annual_revenue" THEN a ELSE o]) :
        a \in Pool(shape, i, "annual_revenue"), o \in Pool(shape, i, "online_revenue")}

RECURSIVE InputSeqs(_, _)
\* the sequences of n input records: the primary, then the secondaries
InputSeqs(shape, n) ==
    IF n = 0 THEN {<<>>}
    ELSE {Append(s, r) : s \in InputSeqs(shape, n - 1), r \in InputRecords(shape, n)}

(***************************************************************************)
(* A call merge_company_data(primary, *secondaries) on the heap            *)
(***************************************************************************)
\* faulty variant: merged = primary (the call fills the primary in place)
MergedRefAliased(h, primary) == primary

\* merged = CompanyData(...): a new object
MergedRef(h, primary) == Len(h) + 1

Call(h, primary, secondaries) ==
    LET r == merge_company_data(h[primary],
                                [k \in 1..Len(secondaries) |-> h[secondaries[k]]])
        ref == MergedRef(h, primary)
    IN  [heap |-> IF ref > Len(h) THEN Append(h, r.merged)
                  ELSE [h EXCEPT ![ref] = r.merged],
         ref |-> ref,
         conflicts |-> r.conflicts]

PrimaryRef == 1

SecondaryRefs == [k \in 1..(Len(inputs) - 1) |-> k + 1]

Perms(s) ==
    {p \in [1..Len(s) -> {s[k] : k \in 1..Len(s)}] :
        \A a, b \in 1..Len(s) : a # b => p[a] # p[b]}

\* the progress events one pipeline emits before its terminal event
MaxEvents == 1

\* the clients: each owns at most one queue
MaxClients == 2

\* the case ids clients ask for
Cases == {"case-1", "case-2"}

\* the cases a pipeline was started for; the others never see an event
Started == {"case-1"}

Clients == 1..MaxClients

\* a client that has not connected
NewClient ==
    [kind |-> "none", case_id |-> "", last_event_id |-> None, pc |-> "new",
     idx |-> 0, already_terminal |-> FALSE, out |-> <<>>]

\* no StreamManager has been constructed
StreamIdle ==
    /\ _subscribers = None
    /\ _buffers = None
    /\ queues = None
    /\ gens = None
    /\ _seq = None
    /\ finished = None

\* no gather is running
GatherIdle ==
    /\ company_name = ""
    /\ gpc = "idle"
    /\ company_type = None
    /\ primary_data = None
    /\ secondary_data = None
    /\ calls = <<>>
    /\ gathered = None
    /\ gather_error = ""

\* no calculation is running
CalcIdle ==
    /\ raw = None
    /\ company_data = None
    /\ methodology = None
    /\ cpc = "idle"
    /\ pre = None
    /\ scenario_results = <<>>
    /\ result = None
    /\ error = ""

\* no merge is running
MergeIdle ==
    /\ heap = <<>>
    /\ inputs = <<>>
    /\ pc = "idle"
    /\ merged = 0
    /\ conflicts = <<>>
    /\ inter = 0
    /\ twostep = 0
    /\ order = <<>>
    /\ reordered = 0

MergeInit ==
    /\ \E shape \in Shapes : \E n \in 1..(MaxSecondaries + 1) :
          inputs \in InputSeqs(shape, n)
    /\ heap = inputs
    /\ pc = "start"
    /\ merged = 0
    /\ conflicts = <<>>
    /\ inter = 0
    /\ twostep = 0
    /\ order = <<>>
    /\ reordered = 0
    /\ CalcIdle
    /\ GatherIdle
    /\ StreamIdle

\* merge_company_data(primary, *secondaries)
MergeAll ==
    /\ pc = "start"
    /\ LET c == Call(heap, PrimaryRef, SecondaryRefs)
       IN  /\ heap' = c.heap
           /\ merged' = c.ref
           /\ conflicts' = c.conflicts
    /\ pc' = "merged"
    /\ UNCHANGED <<inputs, inter, twostep, order, reordered, cvars, gvars, svars>>

\* merge_company_data(primary, secondaries[0])
MergeFirst ==
    /\ pc = "merged"
    /\ Len(SecondaryRefs) >= 1
    /\ LET c == Call(heap, PrimaryRef, <<SecondaryRefs[1]>>)
       IN  /\ heap' = c.heap
           /\ inter' = c.ref
           /\ conflicts' = c.conflicts
    /\ pc' = "first"
    /\ UNCHANGED <<inputs, merged, twostep, order, reordered, cvars, gvars, svars>>

\* merge_company_data(inter, *secondaries[1:])
MergeRest ==
    /\ pc = "first"
    /\ LET c == Call(heap, inter, Tail(SecondaryRefs))
       IN  /\ heap' = c.heap
           /\ twostep' = c.ref
           /\ conflicts' = c.conflicts
    /\ pc' = "twostep"
    /\ UNCHANGED <<inputs, merged, inter, order, reordered, cvars, gvars, svars>>

\* merge_company_data(primary, *p) for a reordering p of the secondaries
MergeReordered ==
    /\ pc = "merged"
    /\ \E p \in Perms(SecondaryRefs) :
          LET c == Call(heap, PrimaryRef, p)
          IN  /\ heap' = c.heap
              /\ reordered' = c.ref
              /\ conflicts' = c.conflicts
              /\ order' = p
    /\ pc' = "reordered"
    /\ UNCHANGED <<inputs, merged, inter, twostep, cvars, gvars, svars>>

MergeNext == MergeAll \/ MergeFirst \/ MergeRest \/ MergeReordered

MergeSpec == MergeInit /\ [][MergeNext]_vars

(***************************************************************************)
(* Inputs of calculate                                                     *)
(***************************************************************************)
CalcInputFields == {"online_revenue", "current_support_contacts", "cost_per_contact"}

CalcFields == CalcInputFields \cup {"engagement_cost"}

CalcValues == {Num(-1), Num(0), Num(2), Str("n/a")}

\* an input field: absent, or one of the values as reported by the company,
\* or the positive value as an estimate
CalcPool ==
    {None}
    \cup {Some(DataPoint(v, "company_reported", "valyu_sec_filing")) : v \in CalcValues}
    \cup {Some(DataPoint(Num(2), "estimated", "websearch_benchmark"))}

\* online_revenue: the same, and the positive value at the two middle tiers
RevenuePool ==
    CalcPool
    \cup {Some(DataPoint(Num(2), t, "websearch_benchmark")) :
             t \in {"cross_industry", "industry_benchmark"}}

CostPool ==
    {None} \cup {Some(DataPoint(v, "company_reported", "manual_override")) : v \in CalcValues}

CalcRecords ==
    {CompanyData("Acme Retail Corp", "retail",
                 [f \in CalcFields |->
                     CASE f = "online_revenue" -> o
                       [] f = "current_support_contacts" -> s
                       [] f = "cost_per_contact" -> c
                       [] OTHER -> e]) :
        o \in RevenuePool, s \in CalcPool, c \in CalcPool, e \in CostPool}

\* benchmark triples in tenths: (0.1, 0.2, 0.3) and (0.5, 1.0, 1.5)
BenchmarkTriples == {BenchmarkRanges(1, 2, 3), BenchmarkRanges(5, 10, 15)}

RegistryInputs(id) == _REGISTRY[id].required_inputs

\* the configurations of one KPI: enabled with weight 0.5 or 1.0 and either
\* triple, or disabled
KPIConfigs(id) ==
    {KPIConfig(id, w, RegistryInputs(id), b, TRUE) : w \in {50, 100}, b \in BenchmarkTriples}
    \cup {KPIConfig(id, 50, RegistryInputs(id), BenchmarkRanges(1, 2, 3), FALSE)}

KPILists ==
    {<<k>> : k \in UNION {KPIConfigs(id) : id \in DOMAIN _REGISTRY}}
    \cup {<<k1, k2>> : k1 \in KPIConfigs("conversion_rate_lift"),
                       k2 \in KPIConfigs("support_cost_savings")}
    \cup {<<k2, k1>> : k1 \in KPIConfigs("conversion_rate_lift"),
                       k2 \in KPIConfigs("support_cost_savings")}

\* KPI lists whose inputs are not the registry's: every KPI declares
\* online_revenue, as the configurations of test_methodology_schema.py do
DeclaredInputsLists ==
    {<<KPIConfig("conversion_rate_lift", 100, <<"online_revenue">>,
                 BenchmarkRanges(1, 2, 3), TRUE)>>,
     <<KPIConfig("conversion_rate_lift", 50, <<"online_revenue">>,
                 BenchmarkRanges(1, 2, 3), TRUE),
       KPIConfig("support_cost_savings", 50, <<"online_revenue">>,
                 BenchmarkRanges(1, 2, 3), TRUE)>>}

\* the realization curve of the V1 configuration, in tenths
V1Curve == <<4, 7, 9>>

\* a confidence_discounts override that is not ordered by tier
UnorderedDiscounts ==
    [t \in DataSourceTier |->
        CASE t = "company_reported" -> 4
          [] t = "industry_benchmark" -> 8
          [] t = "cross_industry" -> 6
          [] t = "estimated" -> 10]

\* the curve and discount overrides the declared-inputs lists come with
Overrides ==
    {<<<<5>>, DefaultDiscounts>>,
     <<<<10, 10>>, UnorderedDiscounts>>,
     <<V1Curve, UnorderedDiscounts>>}

MethodologyConfig(kpis, curve, discounts) ==
    [id |-> "experience-transformation-design",
     version |-> "1.0",
     kpis |-> kpis,
     realization_curve |-> curve,
     confidence_discounts |-> discounts]

\* the configurations that pass validation
ValidMethodologies ==
    {m \in {MethodologyConfig(k, V1Curve, DefaultDiscounts) : k \in KPILists}
            \cup {MethodologyConfig(k, o[1], o[2]) :
                     k \in DeclaredInputsLists, o \in Overrides} :
        Validated(m)}

(***************************************************************************)
(* CalculationEngine.calculate, step by step                               *)
(***************************************************************************)
CalcInit ==
    /\ MergeIdle
    /\ GatherIdle
    /\ StreamIdle
    /\ raw = None
    /\ company_data \in CalcRecords
    /\ methodology \in ValidMethodologies
    /\ cpc = "start"
    /\ pre = None
    /\ scenario_results = <<>>
    /\ result = None
    /\ error = ""

\* the completeness pre-step (calculator.py 38-48)
Completeness ==
    /\ cpc = "start"
    /\ LET required == required_inputs(methodology)
           available == available_fields(company_data)
           missing == required \ available
       IN  pre' = Some([required |-> required,
                        available |-> available,
                        missing |-> missing,
                        completeness |->
                           IF required # {}
                           THEN <<Cardinality(required \ missing), Cardinality(required)>>
                           ELSE <<1, 1>>,
                        warnings |-> IF missing # {} THEN <<Sorted(missing)>> ELSE <<>>])
    /\ cpc' = "scenarios"
    /\ UNCHANGED <<raw, company_data, methodology, scenario_results, result, error, mvars, gvars, svars>>

\* one iteration of the loop over scenarios_to_run; an exception of
\* _run_scenario leaves calculate
RunScenario ==
    /\ cpc = "scenarios"
    /\ Len(scenario_results) < Len(Scenario)
    /\ LET r == _run_scenario(company_data, methodology,
                              Scenario[Len(scenario_results) + 1])
       IN  IF r.raised
           THEN /\ cpc' = "raised"
                /\ error' = r.error
                /\ UNCHANGED scenario_results
           ELSE /\ scenario_results' = Append(scenario_results, r)
                /\ UNCHANGED <<cpc, error>>
    /\ UNCHANGED <<raw, company_data, methodology, pre, result, mvars, gvars, svars>>

\* return CalculationResult(...)
Return ==
    /\ cpc = "scenarios"
    /\ Len(scenario_results) = Len(Scenario)
    /\ result' = Some([company_name |-> company_data.company_name,
                       industry |-> company_data.industry,
                       methodology_id |-> methodology.id,
                       methodology_version |-> methodology.version,
                       scenarios |-> [sc \in {scenario_results[i].scenario :
                                                 i \in 1..Len(scenario_results)} |->
                                         LET i == CHOOSE j \in 1..Len(scenario_results) :
                                                     scenario_results[j].scenario = sc
                                         IN  scenario_results[i]],
                       data_completeness |-> pre[1].completeness,
                       missing_inputs |-> Sorted(pre[1].missing),
                       available_inputs |-> Sorted(pre[1].available \cap pre[1].required),
                       warnings |-> pre[1].warnings])
    /\ cpc' = "returned"
    /\ UNCHANGED <<raw, company_data, methodology, pre, scenario_results, error, mvars, gvars, svars>>

CalcNext == Completeness \/ RunScenario \/ Return

CalcSpec == CalcInit /\ [][CalcNext]_vars

(***************************************************************************)
(* methodology/loader.py: load_methodology, then calculate                 *)
(***************************************************************************)
\* weights a file may give a KPI, in hundredths (1.01 is out of range)
RawWeights == {0, 49, 50, 51, 52, 100, 101}

\* benchmark triples a file may give: ordered, flat, misordered, negative
RawTriples ==
    {BenchmarkRanges(1, 2, 3), BenchmarkRanges(2, 2, 2), BenchmarkRanges(3, 2, 1),
     BenchmarkRanges(1, 3, 2), BenchmarkRanges(-1, 2, 3)}

\* realization curves a file may give: empty, zero, decreasing, above 1.0
RawCurves == {<<>>, V1Curve, <<5>>, <<5, 5>>, <<0, 5>>, <<7, 4>>, <<5, 11>>}

\* files that vary the weights and the enabled flags of one or two KPIs
RawWeightKpis ==
    {<<KPIConfig(id, w, RegistryInputs(id), BenchmarkRanges(1, 2, 3), en)>> :
        id \in DOMAIN _REGISTRY, w \in RawWeights, en \in BOOLEAN}
    \cup {<<KPIConfig("conversion_rate_lift", w1, RegistryInputs("conversion_rate_lift"),
                      BenchmarkRanges(1, 2, 3), en1),
            KPIConfig("support_cost_savings", w2, RegistryInputs("support_cost_savings"),
                      BenchmarkRanges(1, 2, 3), en2)>> :
             w1 \in RawWeights, w2 \in RawWeights, en1 \in BOOLEAN, en2 \in BOOLEAN}

\* files that vary the benchmark triples: of the only KPI, or of a disabled
\* second KPI; and a file naming a KPI that is not registered
RawTripleKpis ==
    {<<KPIConfig("conversion_rate_lift", 100, <<"online_revenue">>, b, TRUE)>> :
        b \in RawTriples}
    \cup {<<KPIConfig("conversion_rate_lift", 100, <<"online_revenue">>,
                      BenchmarkRanges(1, 2, 3), TRUE),
            KPIConfig("support_cost_savings", 0, <<"online_revenue">>, b, FALSE)>> :
             b \in RawTriples}
    \cup {<<KPIConfig("brand_lift", 100, <<"online_revenue">>,
                      BenchmarkRanges(1, 2, 3), TRUE)>>,
          <<>>}

\* the dicts json.load may return
RawConfigs ==
    {MethodologyConfig(k, V1Curve, DefaultDiscounts) : k \in RawWeightKpis}
    \cup {MethodologyConfig(k, c, DefaultDiscounts) : k \in RawTripleKpis, c \in RawCurves}

\* the records the loaded methodology is applied to
LoadRecords ==
    {CompanyData("Acme Retail Corp", "retail",
                 [f \in CalcFields |->
                     CASE f = "online_revenue" -> o
                       [] f = "engagement_cost" -> e
                       [] OTHER -> Some(DataPoint(Num(2), "company_reported",
                                                  "valyu_sec_filing"))]) :
        o \in {None, Some(DataPoint(Num(2), "estimated", "websearch_benchmark"))},
        e \in {None, Some(DataPoint(Num(2), "company_reported", "manual_override"))}}

LoadInit ==
    /\ MergeIdle
    /\ GatherIdle
    /\ StreamIdle
    /\ raw \in RawConfigs
    /\ company_data \in LoadRecords
    /\ methodology = None
    /\ cpc = "load"
    /\ pre = None
    /\ scenario_results = <<>>
    /\ result = None
    /\ error = ""

\* load_methodology: MethodologyConfig.model_validate(raw) returns the
\* config with the values of the file, or raises ValidationError
Load ==
    /\ cpc = "load"
    /\ IF Validated(raw)
       THEN /\ methodology' = raw
            /\ cpc' = "start"
            /\ UNCHANGED error
       ELSE /\ cpc' = "rejected"
            /\ error' = "ValidationError"
            /\ UNCHANGED methodology
    /\ UNCHANGED <<raw, company_data, pre, scenario_results, result, mvars, gvars, svars>>

LoadNext == Load \/ Completeness \/ RunScenario \/ Return

LoadSpec == LoadInit /\ [][LoadNext]_vars

(***************************************************************************)
(* orchestrator/company_classifier.py, orchestrator/data_orchestrator.py   *)
(*                                                                         *)
(* DataOrchestrator.gather, one step per awaited call.  A provider's       *)
(* fetch either returns a CompanyData for the requested company or raises. *)
(***************************************************************************)
CompanyType == {"public", "private", "unknown"}

\* the names gather is called with: one that matches _PUBLIC_COMPANIES and
\* one that matches no list, suffix or pattern
CompanyNames == {"Nike", "TestCo"}

\* the names of CompanyNames that contain a member of _PUBLIC_COMPANIES
MatchesPublic(name) == name = "Nike"

classify_company(name) == IF MatchesPublic(name) THEN "public" ELSE "private"

\* the provider gather asks first
PrimaryProvider(ctype) ==
    IF ctype \in {"public", "unknown"} THEN "valyu" ELSE "firecrawl"

ProviderSource(provider) ==
    CASE provider = "valyu" -> "valyu_sec_filing"
      [] provider = "firecrawl" -> "firecrawl_crunchbase"
      [] OTHER -> "websearch_benchmark"

ProviderTier(provider) ==
    CASE provider = "valyu" -> "company_reported"
      [] provider = "firecrawl" -> "estimated"
      [] OTHER -> "industry_benchmark"

\* what a provider can have found for one field
FetchedPoints(provider, f) ==
    {None} \cup
    {Some(DataPoint(v, ProviderTier(provider), ProviderSource(provider))) :
        v \in (IF f = "annual_revenue" THEN {Num(80), Num(100)} ELSE {Num(90)})}

\* the records fetch(company_name, industry) can return
FetchedRecords(provider, name) ==
    {CompanyData(name, "retail",
                 [f \in Fields |-> IF f = "annual_revenue" THEN a ELSE o]) :
        a \in FetchedPoints(provider, "annual_revenue"),
        o \in FetchedPoints(provider, "online_revenue")}

\* the outcomes of await provider.fetch(company_name, industry)
FetchOutcomes(provider, name) ==
    {Returns(r) : r \in FetchedRecords(provider, name)} \cup {Raised("TimeoutError")}

\* the four branches that build (merged, conflicts)
Combine(name, primary, secondary) ==
    IF primary # None /\ secondary # None
    THEN merge_company_data(primary[1], <<secondary[1]>>)
    ELSE IF primary # None
    THEN [merged |-> primary[1], conflicts |-> <<>>]
    ELSE IF secondary # None
    THEN [merged |-> secondary[1], conflicts |-> <<>>]
    ELSE [merged |-> CompanyData(name, "retail", [f \in Fields |-> None]),
          conflicts |-> <<>>]

GatherInit ==
    /\ MergeIdle
    /\ CalcIdle
    /\ StreamIdle
    /\ company_name \in CompanyNames
    /\ gpc = "start"
    /\ company_type = None
    /\ primary_data = None
    /\ secondary_data = None
    /\ calls = <<>>
    /\ gathered = None
    /\ gather_error = ""

\* company_type = classify_company(company_name)
Classify ==
    /\ gpc = "start"
    /\ company_type' = Some(classify_company(company_name))
    /\ gpc' = "primary"
    /\ UNCHANGED <<company_name, primary_data, secondary_data, calls, gathered,
                   gather_error, mvars, cvars, svars>>

\* primary_data = await self._valyu.fetch(...) or self._firecrawl.fetch(...);
\* nothing in gather catches what the call raises
FetchPrimary ==
    /\ gpc = "primary"
    /\ LET provider == PrimaryProvider(company_type[1])
       IN  \E o \in FetchOutcomes(provider, company_name) :
              /\ calls' = Append(calls, [provider |-> provider, ok |-> o.ok])
              /\ IF o.ok
                 THEN /\ primary_data' = Some(o.raw)
                      /\ gpc' = "secondary"
                      /\ UNCHANGED gather_error
                 ELSE /\ gather_error' = o.error
                      /\ gpc' = "raised"
                      /\ UNCHANGED primary_data
    /\ UNCHANGED <<company_name, company_type, secondary_data, gathered, mvars, cvars, svars>>

\* secondary_data = await self._websearch.fetch(...)
FetchSecondary ==
    /\ gpc = "secondary"
    /\ \E o \in FetchOutcomes("websearch", company_name) :
          /\ calls' = Append(calls, [provider |-> "websearch", ok |-> o.ok])
          /\ IF o.ok
             THEN /\ secondary_data' = Some(o.raw)
                  /\ gpc' = "combine"
                  /\ UNCHANGED gather_error
             ELSE /\ gather_error' = o.error
                  /\ gpc' = "raised"
                  /\ UNCHANGED secondary_data
    /\ UNCHANGED <<company_name, company_type, primary_data, gathered, mvars, cvars, svars>>

\* the merge of what was fetched, and return merged, conflicts
GatherReturn ==
    /\ gpc = "combine"
    /\ gathered' = Some(Combine(company_name, primary_data, secondary_data))
    /\ gpc' = "done"
    /\ UNCHANGED <<company_name, company_type, primary_data, secondary_data, calls,
                   gather_error, mvars, cvars, svars>>

GatherNext == Classify \/ FetchPrimary \/ FetchSecondary \/ GatherReturn

GatherSpec == GatherInit /\ [][GatherNext]_vars

(***************************************************************************)
(* streaming/events.py, streaming/manager.py, main.py                      *)
(*                                                                         *)
(* One StreamManager shared by the pipelines that emit and by the clients  *)
(* that read.  asyncio runs one coroutine at a time and an unbounded       *)
(* Queue.put never suspends, so emit, subscribe and unsubscribe are single *)
(* steps; an event_generator gives up control at each yield and while it   *)
(* waits in queue.get() on an empty queue.                                 *)
(***************************************************************************)
_TERMINAL_EVENTS == {"pipeline_completed", "pipeline_error"}

SSEEvent(type, seq) == [event_type |-> type, sequence_id |-> seq]

\* the sequence_id run_pipeline gives its PIPELINE_ERROR event
ErrorSequenceId == 999

\* the Last-Event-ID values a client sends, None for none
LastEventIds == {None, Some(1)}

Heartbeat == ": connected"

Range(s) == {s[i] : i \in 1..Len(s)}

\* list.remove(x): the list without its first x
RECURSIVE Remove(_, _)
Remove(s, x) ==
    IF s = <<>> THEN <<>>
    ELSE IF Head(s) = x THEN Tail(s)
    ELSE <<Head(s)>> \o Remove(Tail(s), x)

\* self._subscribers[case_id].append(queue)
subscribe(subs, case_id, queue) == [subs EXCEPT ![case_id] = Append(@, queue)]

\* faulty variant: the subscriber list is left as it is
UnsubscribeKeeps(subs, case_id, queue) == subs

\* if queue in subs: subs.remove(queue)
unsubscribe(subs, case_id, queue) ==
    IF queue \in Range(subs[case_id])
    THEN [subs EXCEPT ![case_id] = Remove(@, queue)]
    ELSE subs

RECURSIVE PutAll(_, _, _)
\* for queue in subs: await queue.put(event)
PutAll(qs, subs, event) ==
    IF subs = <<>> THEN qs
    ELSE PutAll([qs EXCEPT ![Head(subs)] = Append(@, event)], Tail(subs), event)

\* faulty variant: only the first subscriber is served
EmitToFirst(bufs, subs, qs, case_id, event) ==
    [buffers |-> [bufs EXCEPT ![case_id] = Append(@, event)],
     queues |-> PutAll(qs, IF subs[case_id] = <<>> THEN <<>>
                           ELSE <<Head(subs[case_id])>>, event)]

\* StreamManager.emit
emit(bufs, subs, qs, case_id, event) ==
    [buffers |-> [bufs EXCEPT ![case_id] = Append(@, event)],
     queues |-> PutAll(qs, subs[case_id], event)]

\* faulty variant: the replay takes sequence_id >= last_event_id
ReplayFromInclusive(buf, last_event_id, i) ==
    LET later == {j \in (i + 1)..Len(buf) : buf[j].sequence_id >= last_event_id}
    IN  IF later = {} THEN 0 ELSE Min(later)

\* the next position after i of the replay loop that yields, 0 if the loop
\* ends: for event in buffer: if event.sequence_id > last_event_id: yield
ReplayFrom(buf, last_event_id, i) ==
    LET later == {j \in (i + 1)..Len(buf) : buf[j].sequence_id > last_event_id}
    IN  IF later = {} THEN 0 ELSE Min(later)

\* a StreamManager as constructed, no pipeline started, no client connected
StreamInit ==
    /\ MergeIdle
    /\ CalcIdle
    /\ GatherIdle
    /\ _subscribers = [c \in Cases |-> <<>>]
    /\ _buffers = [c \in Cases |-> <<>>]
    /\ queues = [q \in Clients |-> <<>>]
    /\ gens = [q \in Clients |-> NewClient]
    /\ _seq = [c \in Cases |-> 0]
    /\ finished = [c \in Cases |-> FALSE]

\* queues are numbered in the order in which they are created
IsNextQueue(q) == gens[q].pc = "new" /\ \A p \in 1..(q - 1) : gens[p].pc # "new"

\* the events the pipeline of a case can emit next: CPROIOrchestrator._emit
\* numbers its events from 1, run_pipeline emits PIPELINE_ERROR with 999
NextEvents(case_id) ==
    (IF _seq[case_id] < MaxEvents
     THEN {SSEEvent("data_fetch_progress", _seq[case_id] + 1)} ELSE {})
    \cup {SSEEvent("pipeline_completed", _seq[case_id] + 1),
          SSEEvent("pipeline_error", ErrorSequenceId)}

\* the pipeline of a case emits its next event
Emit(case_id) ==
    /\ ~finished[case_id]
    /\ \E event \in NextEvents(case_id) :
          LET r == emit(_buffers, _subscribers, queues, case_id, event)
          IN  /\ _buffers' = r.buffers
              /\ queues' = r.queues
              /\ _seq' = [_seq EXCEPT ![case_id] =
                             IF event.sequence_id = ErrorSequenceId THEN @ ELSE @ + 1]
              /\ finished' = [finished EXCEPT ![case_id] =
                                 event.event_type \in _TERMINAL_EVENTS]
    /\ UNCHANGED <<_subscribers, gens, mvars, cvars, gvars>>

\* a caller takes a queue with subscribe(case_id), as the tests do
Subscribe(q, case_id) ==
    /\ IsNextQueue(q)
    /\ _subscribers' = subscribe(_subscribers, case_id, q)
    /\ gens' = [gens EXCEPT ![q] = [@ EXCEPT !.kind = "direct",
                                             !.case_id = case_id,
                                             !.pc = "subscribed"]]
    /\ UNCHANGED <<_buffers, queues, _seq, finished, mvars, cvars, gvars>>

\* a caller calls unsubscribe(case_id, queue) with a queue it took, for any
\* case and any number of times
Unsubscribe(q, case_id) ==
    /\ gens[q].kind = "direct"
    /\ _subscribers' = unsubscribe(_subscribers, case_id, q)
    /\ gens' = [gens EXCEPT ![q].pc =
                   IF q \in Range(_subscribers'[gens[q].case_id])
                   THEN "subscribed" ELSE "unsubscribed"]
    /\ UNCHANGED <<_buffers, queues, _seq, finished, mvars, cvars, gvars>>

\* the first __anext__ of event_generator(case_id, last_event_id):
\* subscribe, then yield the heartbeat
GenStart(q, case_id, last_event_id) ==
    /\ IsNextQueue(q)
    /\ _subscribers' = subscribe(_subscribers, case_id, q)
    /\ gens' = [gens EXCEPT ![q] = [@ EXCEPT !.kind = "generator",
                                             !.case_id = case_id,
                                             !.last_event_id = last_event_id,
                                             !.pc = "heartbeat",
                                             !.out = <<Heartbeat>>]]
    /\ UNCHANGED <<_buffers, queues, _seq, finished, mvars, cvars, gvars>>

\* event = await queue.get(); yield event.to_sse_string(), or the wait for
\* an event when the queue is empty
Live(q) ==
    IF queues[q] = <<>>
    THEN /\ gens' = [gens EXCEPT ![q].pc = "waiting"]
         /\ UNCHANGED queues
    ELSE /\ gens' = [gens EXCEPT ![q] = [@ EXCEPT !.pc = "live",
                                                  !.out = Append(@, Head(queues[q]))]]
         /\ queues' = [queues EXCEPT ![q] = Tail(@)]

\* a later __anext__ of the generator: it runs from the yield where it
\* stands, or from its wait in queue.get(), to its next yield or wait
GenNext(q) ==
    /\ gens[q].kind = "generator"
    /\ \/ /\ gens[q].pc \in {"heartbeat", "replay"}
          /\ LET g == gens[q]
                 j == IF g.last_event_id = None THEN 0
                      ELSE ReplayFrom(_buffers[g.case_id], g.last_event_id[1], g.idx)
             IN  IF j > 0
                 THEN /\ gens' = [gens EXCEPT ![q] =
                                     [@ EXCEPT !.pc = "replay",
                                               !.idx = j,
                                               !.out = Append(@, _buffers[g.case_id][j])]]
                      /\ UNCHANGED queues
                 ELSE Live(q)
       \/ /\ gens[q].pc = "live"
          /\ Live(q)
       \/ /\ gens[q].pc = "waiting"
          /\ queues[q] # <<>>
          /\ Live(q)
    /\ UNCHANGED <<_subscribers, _buffers, _seq, finished, mvars, cvars, gvars>>

\* what is left of a generator whose client went away: its frame, with the
\* queue it held and what it had yielded, is gone
Closed(g) == [g EXCEPT !.pc = "closed", !.last_event_id = None, !.idx = 0,
                       !.already_terminal = FALSE, !.out = <<>>]

\* the client goes away: aclose() at a yield or cancellation of the wait
\* runs the finally clause, await self.unsubscribe(case_id, queue)
GenClose(q) ==
    /\ gens[q].kind = "generator"
    /\ gens[q].pc \in {"heartbeat", "replay", "live", "waiting"}
    /\ _subscribers' = unsubscribe(_subscribers, gens[q].case_id, q)
    /\ gens' = [gens EXCEPT ![q] = Closed(@)]
    /\ queues' = [queues EXCEPT ![q] = <<>>]
    /\ UNCHANGED <<_buffers, _seq, finished, mvars, cvars, gvars>>

StreamNext ==
    \/ \E case_id \in Started : Emit(case_id)
    \/ \E q \in Clients, case_id \in Cases : Subscribe(q, case_id)
    \/ \E q \in Clients, case_id \in Cases : Unsubscribe(q, case_id)
    \/ \E q \in Clients, case_id \in Cases, k \in LastEventIds : GenStart(q, case_id, k)
    \/ \E q \in Clients : GenNext(q)
    \/ \E q \in Clients : GenClose(q)

StreamSpec == StreamInit /\ [][StreamNext]_vars

(***************************************************************************)
(* _archive_backend/streaming/manager.py                                   *)
(*                                                                         *)
(* The archived StreamManager: subscribe and emit as above; unsubscribe    *)
(* drops the buffer with the last subscriber, event_generator always       *)
(* replays and returns after a terminal event.                             *)
(***************************************************************************)
\* faulty variant: the buffer is kept when the last subscriber leaves
ArchivedUnsubscribeKeepsBuffer(subs, bufs, case_id, queue) ==
    [subscribers |-> unsubscribe(subs, case_id, queue), buffers |-> bufs]

\* subs.remove(queue), then, if no subscriber is left for the case,
\* self._buffers.pop(case_id) and self._subscribers.pop(case_id)
archived_unsubscribe(subs, bufs, case_id, queue) ==
    LET left == unsubscribe(subs, case_id, queue)
    IN  [subscribers |-> left,
         buffers |-> IF left[case_id] = <<>> THEN [bufs EXCEPT ![case_id] = <<>>]
                     ELSE bufs]

\* threshold = last_event_id if last_event_id is not None else 0
Threshold(last_event_id) == IF last_event_id = None THEN 0 ELSE last_event_id[1]

\* return: the finally clause unsubscribes the queue and the generator ends
ArchivedReturn(q) ==
    LET r == archived_unsubscribe(_subscribers, _buffers, gens[q].case_id, q)
    IN  /\ _subscribers' = r.subscribers
        /\ _buffers' = r.buffers
        /\ gens' = [gens EXCEPT ![q].pc = "done"]
        /\ UNCHANGED queues

\* a later __anext__ of the archived generator
ArchivedGenNext(q) ==
    /\ gens[q].kind = "generator"
    /\ \/ /\ gens[q].pc \in {"heartbeat", "replay"}
          /\ LET g == gens[q]
                 buf == _buffers[g.case_id]
                 j == ReplayFrom(buf, Threshold(g.last_event_id), g.idx)
             IN  IF j > 0
                 THEN /\ gens' = [gens EXCEPT ![q] =
                                     [@ EXCEPT !.pc = "replay",
                                               !.idx = j,
                                               !.already_terminal =
                                                   @ \/ buf[j].event_type \in _TERMINAL_EVENTS,
                                               !.out = Append(@, buf[j])]]
                      /\ UNCHANGED <<queues, _subscribers, _buffers>>
                 ELSE IF g.already_terminal
                 THEN ArchivedReturn(q)
                 ELSE Live(q) /\ UNCHANGED <<_subscribers, _buffers>>
       \/ /\ gens[q].pc = "live"
          /\ IF gens[q].out[Len(gens[q].out)].event_type \in _TERMINAL_EVENTS
             THEN ArchivedReturn(q)
             ELSE Live(q) /\ UNCHANGED <<_subscribers, _buffers>>
       \/ /\ gens[q].pc = "waiting"
          /\ queues[q] # <<>>
          /\ Live(q)
          /\ UNCHANGED <<_subscribers, _buffers>>
    /\ UNCHANGED <<_seq, finished, mvars, cvars, gvars>>

\* the client of an archived generator goes away
ArchivedGenClose(q) ==
    /\ gens[q].kind = "generator"
    /\ gens[q].pc \in {"heartbeat", "replay", "live", "waiting"}
    /\ LET r == archived_unsubscribe(_subscribers, _buffers, gens[q].case_id, q)
       IN  /\ _subscribers' = r.subscribers
           /\ _buffers' = r.buffers
    /\ gens' = [gens EXCEPT ![q] = Closed(@)]
    /\ queues' = [queues EXCEPT ![q] = <<>>]
    /\ UNCHANGED <<_seq, finished, mvars, cvars, gvars>>

ArchivedStreamNext ==
    \/ \E case_id \in Started : Emit(case_id)
    \/ \E q \in Clients, case_id \in Cases, k \in LastEventIds : GenStart(q, case_id, k)
    \/ \E q \in Clients : ArchivedGenNext(q)
    \/ \E q \in Clients : ArchivedGenClose(q)

ArchivedStreamSpec == StreamInit /\ [][ArchivedStreamNext]_vars

(***************************************************************************)
(* Merge engine: properties                                                *)
(***************************************************************************)
InputIds == 1..Len(inputs)

\* the input records that hold field f
Holders(f) == {i \in InputIds : inputs[i].data[f] # None}

TierOfInput(i, f) == inputs[i].data[f][1].confidence_tier

TopRank(f) ==
    CHOOSE r \in 0..3 :
        /\ \E i \in Holders(f) : _TIER_RANK[TierOfInput(i, f)] = r
        /\ \A i \in Holders(f) : _TIER_RANK[TierOfInput(i, f)] <= r

\* the input records that hold f at the maximum tier
TopHolders(f) == {i \in Holders(f) : _TIER_RANK[TierOfInput(i, f)] = TopRank(f)}

Earliest(S) == CHOOSE i \in S : \A j \in S : i <= j

\* the entry keeps the merged value unless the secondary's tier is strictly higher
KeepsUnlessHigher(c) ==
    IF _TIER_RANK[c.secondary_tier] > _TIER_RANK[c.primary_tier]
    THEN c.chosen_value = c.secondary_value
         /\ c.resolution = <<c.secondary_tier, c.primary_tier>>
    ELSE c.chosen_value = c.primary_value
         /\ c.resolution = <<c.primary_tier, c.secondary_tier>>

\* C1: a merged field is absent iff no input record holds it, and otherwise is
\* the DataPoint of the earliest input record among those of maximum tier; a
\* secondary replaces the merged value only with a strictly higher tier.
C1_EarliestOfTopTier ==
    pc = "merged" =>
        /\ \A f \in Fields :
              IF Holders(f) = {} THEN heap[merged].data[f] = None
              ELSE heap[merged].data[f] = inputs[Earliest(TopHolders(f))].data[f]
        /\ \A k \in 1..Len(conflicts) : KeepsUnlessHigher(conflicts[k])

\* three records hold the field, the two secondaries share the top tier, and
\* the first of them won
C1_Witness ==
    /\ pc = "merged"
    /\ Len(inputs) = 3
    /\ Holders("annual_revenue") = {1, 2, 3}
    /\ TopHolders("annual_revenue") = {2, 3}
    /\ heap[merged].data["annual_revenue"] = inputs[2].data["annual_revenue"]
    /\ Holders("online_revenue") = {}
    /\ heap[merged].data["online_revenue"] = None

\* the (secondary, field) steps in loop order: secondaries outermost
AllSteps ==
    [p \in 1..((Len(inputs) - 1) * Len(DataFieldNames)) |->
        <<2 + ((p - 1) \div Len(DataFieldNames)),
          DataFieldNames[1 + ((p - 1) % Len(DataFieldNames))]>>]

\* the step meets a value on both sides: the secondary holds the field and so
\* does an earlier record
BothHold(step) ==
    /\ step[1] \in Holders(step[2])
    /\ \E j \in Holders(step[2]) : j < step[1]

ConflictSteps == SelectSeq(AllSteps, BothHold)

ConflictsOf(f) == {k \in 1..Len(conflicts) : conflicts[k].field_name = f}

\* C2: exactly one conflict entry per (secondary, field) step in which both
\* sides hold a value, agreeing or not, in secondary order, and none for a
\* gap fill; per field, (records holding it) - 1 entries, or 0.
C2_OneConflictPerOverlap ==
    pc = "merged" =>
        /\ Len(conflicts) = Len(ConflictSteps)
        /\ \A k \in 1..Len(conflicts) :
              /\ conflicts[k].field_name = ConflictSteps[k][2]
              /\ conflicts[k].secondary_source = SourceOf(ConflictSteps[k][1])
              /\ conflicts[k].secondary_value =
                    inputs[ConflictSteps[k][1]].data[ConflictSteps[k][2]][1].value
        /\ \A f \in Fields :
              Cardinality(ConflictsOf(f)) =
                 IF Holders(f) = {} THEN 0 ELSE Cardinality(Holders(f)) - 1

\* the primary lacks the field, the first secondary fills the gap without an
\* entry, and the second agrees with it in value and tier and is still recorded
C2_Witness ==
    /\ pc = "merged"
    /\ Holders("annual_revenue") = {2, 3}
    /\ inputs[2].data["annual_revenue"][1].value = inputs[3].data["annual_revenue"][1].value
    /\ TierOfInput(2, "annual_revenue") = TierOfInput(3, "annual_revenue")
    /\ Len(conflicts) = 1
    /\ conflicts[1].secondary_source = SourceOf(3)

\* a value float() accepts, and the number it yields
IsNumeric(v) == v.type = "float" \/ v.text \in DOMAIN NumericText

NumberOf(v) == IF v.type = "float" THEN v.num ELSE NumericText[v.text]

\* |a - b| / max(|a|, |b|) > 0.10, with 0 for a = b = 0
Over10Pct(a, b) ==
    /\ ~(a = 0 /\ b = 0)
    /\ 10 * Abs(a - b) > Max(Abs(a), Abs(b))

EntryOf(a, b, flag) ==
    \E k \in 1..Len(conflicts) :
        /\ conflicts[k].primary_value = Num(a)
        /\ conflicts[k].secondary_value = Num(b)
        /\ conflicts[k].flagged_for_cp = flag

C4_Original ==
    \A k \in 1..Len(conflicts) :
        LET c == conflicts[k]
        IN  (c.primary_value.type # "float" \/ c.secondary_value.type # "float")
               => ~c.flagged_for_cp

\* C4 amended: when float() rejects either value the entry is still recorded,
\* once per overlapping step, and is not flagged.
C4_UnconvertibleNotFlagged ==
    /\ \A k \in 1..Len(conflicts) :
          LET c == conflicts[k]
          IN  (~IsNumeric(c.primary_value) \/ ~IsNumeric(c.secondary_value))
                 => ~c.flagged_for_cp
    /\ pc = "merged" =>
          \A i \in Holders("annual_revenue") :
              (~IsNumeric(inputs[i].data["annual_revenue"][1].value)
                 /\ i # Earliest(Holders("annual_revenue")))
              => \E k \in 1..Len(conflicts) :
                    /\ conflicts[k].secondary_source = SourceOf(i)
                    /\ conflicts[k].secondary_value = inputs[i].data["annual_revenue"][1].value
                    /\ ~conflicts[k].flagged_for_cp

\* "n/a" against 100 and 100 against "n/a": both recorded, neither flagged
C4_Witness ==
    /\ pc = "merged"
    /\ Len(conflicts) = 2
    /\ conflicts[1].primary_value = Num(100)
    /\ conflicts[1].secondary_value = Str("n/a")
    /\ ~conflicts[1].flagged_for_cp
    /\ conflicts[2].secondary_value = Num(0)
    /\ ~conflicts[2].flagged_for_cp

\* C5: merge(merge(a, b), c) equals merge(a, b, c) field by field.
C5_TwoStepEqualsDirect ==
    pc = "twostep" =>
        \A f \in Fields : heap[twostep].data[f] = heap[merged].data[f]

\* b and c tie at the top tier above a; both ways of merging return b's
C5_Witness ==
    /\ pc = "twostep"
    /\ Len(inputs) = 3
    /\ Holders("annual_revenue") = {1, 2, 3}
    /\ TopHolders("annual_revenue") = {2, 3}
    /\ heap[twostep].data["annual_revenue"] = inputs[2].data["annual_revenue"]
    /\ heap[inter].data["annual_revenue"] = inputs[2].data["annual_revenue"]

\* C6: reordering the secondaries keeps every merged tier, changes a merged
\* DataPoint only when two or more records share the field's top tier, and no
\* secondary overturns a value of equal or higher tier.
C6_ReorderKeepsTier ==
    pc = "reordered" =>
        /\ \A f \in Fields :
              /\ (heap[reordered].data[f] = None) <=> (heap[merged].data[f] = None)
              /\ heap[merged].data[f] # None =>
                    heap[reordered].data[f][1].confidence_tier
                       = heap[merged].data[f][1].confidence_tier
              /\ heap[reordered].data[f] # heap[merged].data[f] =>
                    Cardinality(TopHolders(f)) >= 2
        /\ \A k \in 1..Len(conflicts) : KeepsUnlessHigher(conflicts[k])

\* the secondaries are swapped, they tie at the top, and the value changed
C6_Witness ==
    /\ pc = "reordered"
    /\ order = <<3, 2>>
    /\ TopHolders("annual_revenue") = {2, 3}
    /\ heap[merged].data["annual_revenue"] = inputs[2].data["annual_revenue"]
    /\ heap[reordered].data["annual_revenue"] = inputs[3].data["annual_revenue"]

\* the reference the step returns, and the primary it was called with
Returned == 
    CASE pc' = "merged" -> merged'
      [] pc' = "first" -> inter'
      [] pc' = "twostep" -> twostep'
      [] OTHER -> reordered'

CalledPrimary == IF pc' = "twostep" THEN inter ELSE PrimaryRef

\* C7: a call changes no record that existed before it, returns a new
\* record, and gives it the primary's company_name and industry.
C7_InputsUnchanged ==
    [][/\ \A i \in 1..Len(heap) : heap'[i] = heap[i]
       /\ \A i \in InputIds : heap'[i] = inputs[i]
       /\ Returned = Len(heap) + 1
       /\ Len(heap') = Len(heap) + 1
       /\ heap'[Returned].company_name = heap[CalledPrimary].company_name
       /\ heap'[Returned].industry = heap[CalledPrimary].industry]_mvars

\* the merged record differs from the primary, which is as it was passed in
C7_Witness ==
    /\ pc = "merged"
    /\ heap[merged].data # inputs[PrimaryRef].data
    /\ heap[PrimaryRef] = inputs[PrimaryRef]
    /\ heap[merged].company_name = "Nike"
    /\ inputs[2].company_name = "NIKE Inc"

(***************************************************************************)
(* Calculation engine: properties                                          *)
(***************************************************************************)
ScenarioNames == {Scenario[i] : i \in 1..Len(Scenario)}

\* C8: calculate returns, for every record and validated methodology, a
\* result whose scenarios map has exactly the keys conservative, moderate and
\* aggressive, each evaluated with that scenario's benchmark value.
C8_ThreeScenarios ==
    /\ cpc # "raised"
    /\ cpc = "returned" =>
          /\ DOMAIN result[1].scenarios = ScenarioNames
          /\ \A sc \in ScenarioNames :
                LET sr == result[1].scenarios[sc]
                IN  /\ sr.scenario = sc
                    /\ \A i \in 1..Len(sr.kpi_results) :
                          ~sr.kpi_results[i].skipped =>
                             sr.kpi_results[i].benchmark_value
                                = enabled_kpis(methodology)[i].benchmark_ranges[sc]

\* a problem with the data of field f: absent, negative or not a number
DataProblem(f) ==
    \/ company_data.data[f] = None
    \/ company_data.data[f][1].value.type # "float"
    \/ company_data.data[f][1].value.num < 0

\* C9: calculate never raises for data-quality problems (missing, negative
\* or non-numeric fields, zero, negative or non-numeric engagement_cost): the
\* run completes and a KPI with a problem input is a skipped entry with a reason.
C9_NeverRaises ==
    /\ error = ""
    /\ \A k \in 1..Len(scenario_results) :
          \A i \in 1..Len(scenario_results[k].kpi_results) :
              LET e == scenario_results[k].kpi_results[i]
              IN  (\E f \in SeqToSet(RegistryInputs(e.kpi_id)) : DataProblem(f))
                     => e.skipped /\ e.skip_reason # None

\* every populated field is a non-negative number
ValidRecord ==
    \A f \in CalcFields :
        company_data.data[f] # None =>
            /\ company_data.data[f][1].value.type = "float"
            /\ company_data.data[f][1].value.num >= 0

Total(sc) == result[1].scenarios[sc].total_annual_impact_unweighted

\* C10: for a valid record and a validated methodology (whose triples are
\* ordered) the unweighted totals are ordered conservative <= moderate <=
\* aggressive.
C10_ScenarioOrdering ==
    (cpc = "returned" /\ ValidRecord) =>
        /\ Total("conservative") <= Total("moderate")
        /\ Total("moderate") <= Total("aggressive")

\* the enabled KPIConfig entries of the methodology, in methodology order
EnabledConfigs == SelectSeq(methodology.kpis, LAMBDA k : k.enabled)

\* the kpi_id of the skipped entries of a sequence of entries, in order
SkippedIds(entries) ==
    LET sk == SelectSeq(entries, LAMBDA e : e.skipped)
    IN  [i \in 1..Len(sk) |-> sk[i].kpi_id]

\* C11: in every scenario, kpi_results holds one entry per enabled KPI of the
\* methodology, skipped or computed, in methodology order, none for a disabled
\* KPI, and skipped_kpis is the kpi_id of the skipped entries in that order.
C11_OneEntryPerEnabledKpi ==
    \A k \in 1..Len(scenario_results) :
        LET sr == scenario_results[k]
        IN  /\ Len(sr.kpi_results) = Len(EnabledConfigs)
            /\ \A i \in 1..Len(sr.kpi_results) :
                  sr.kpi_results[i].kpi_id = EnabledConfigs[i].id
            /\ \A j \in 1..Len(methodology.kpis) :
                  ~methodology.kpis[j].enabled =>
                     \A i \in 1..Len(sr.kpi_results) :
                        sr.kpi_results[i].kpi_id # methodology.kpis[j].id
            /\ sr.skipped_kpis = SkippedIds(sr.kpi_results)

\* a disabled KPI before an enabled one: one entry per scenario, computed in
\* the first two scenarios and skipped in the third
C11_Witness ==
    /\ cpc = "returned"
    /\ Len(methodology.kpis) = 2
    /\ ~methodology.kpis[1].enabled
    /\ methodology.kpis[2].enabled
    /\ Len(scenario_results[1].kpi_results) = 1
    /\ scenario_results[1].skipped_kpis = <<>>
    /\ scenario_results[3].kpi_results[1].skipped
    /\ scenario_results[3].skipped_kpis = <<methodology.kpis[2].id>>

\* the required input fields of the KPI definition that the record lacks
AbsentInputs(kpi_id) ==
    SelectSeq(_REGISTRY[kpi_id].required_inputs,
              LAMBDA f : company_data.data[f] = None)

\* every field of the record is present with value 0
AllZeroRecord ==
    \A f \in CalcFields :
        company_data.data[f] # None /\ company_data.data[f][1].value = Num(0)

\* C12: a KPI is skipped for missing inputs exactly when a required input
\* field is absent, and the reason lists exactly the absent fields; a record
\* whose fields are all present and zero has no skipped KPI and a total impact
\* of exactly 0 in every scenario.
C12_MissingNotZero ==
    \A k \in 1..Len(scenario_results) :
        LET sr == scenario_results[k]
        IN  /\ \A i \in 1..Len(sr.kpi_results) :
                  LET e == sr.kpi_results[i]
                      absent == AbsentInputs(e.kpi_id)
                  IN  /\ (e.skipped /\ e.skip_reason[1].kind = "missing")
                            <=> absent # <<>>
                      /\ absent # <<>> => e.skip_reason[1].fields = absent
            /\ AllZeroRecord =>
                  /\ sr.skipped_kpis = <<>>
                  /\ sr.total_annual_impact = 0
                  /\ sr.total_annual_impact_unweighted = 0

\* the formula of the KPI is invoked (every required input is present) and
\* raises: an input is negative or not a number, or the benchmark of the
\* scenario is outside [0, 1.0]
FormulaRaises(kpi_config, sc) ==
    LET ins == SeqToSet(_REGISTRY[kpi_config.id].required_inputs)
        b == kpi_config.benchmark_ranges[sc]
    IN  /\ \A f \in ins : company_data.data[f] # None
        /\ \/ \E f \in ins : \/ company_data.data[f][1].value.type # "float"
                             \/ company_data.data[f][1].value.num < 0
           \/ b < 0
           \/ b > 10

\* the scenario _run_scenario was last called for
CurrentScenario ==
    IF cpc = "raised" THEN Scenario[Len(scenario_results) + 1]
    ELSE Scenario[Len(scenario_results)]

\* C13: when a KPI formula raises, the KPI gets a skipped entry with a
\* non-empty reason carrying the error message and zero raw, adjusted and
\* weighted impact; the exception does not propagate, and the other enabled
\* KPIs of the scenario and the other scenarios are still evaluated.
C13_FormulaErrorIsSkip ==
    /\ \A k \in 1..Len(scenario_results) :
          LET sr == scenario_results[k]
          IN  /\ Len(sr.kpi_results) = Len(EnabledConfigs)
              /\ \A i \in 1..Len(sr.kpi_results) :
                    LET e == sr.kpi_results[i]
                    IN  FormulaRaises(EnabledConfigs[i], sr.scenario) =>
                           /\ e.skipped
                           /\ e.skip_reason # None
                           /\ e.skip_reason[1].kind = "formula"
                           /\ e.skip_reason[1].message # ""
                           /\ e.raw_impact = 0
                           /\ e.adjusted_impact = 0
                           /\ e.weighted_impact = 0
    /\ (Len(scenario_results) > 0 \/ cpc = "raised") =>
          ((\E i \in 1..Len(EnabledConfigs) :
               FormulaRaises(EnabledConfigs[i], CurrentScenario))
             => cpc # "raised")
    /\ cpc = "returned" => Len(scenario_results) = Len(Scenario)

\* the record with the confidence tier of field f set to t
WithTier(f, t) ==
    [company_data EXCEPT !.data[f] = Some([@[1] EXCEPT !.confidence_tier = t])]

\* the methodology's discount for the tier of the record's field f
DiscountOfField(f) ==
    methodology.confidence_discounts[company_data.data[f][1].confidence_tier]

\* discount, adjusted and weighted impact of a non-skipped entry e of the
\* enabled KPI kpi_config
DiscountIsWeakestLink(e, kpi_config) ==
    LET ins == SeqToSet(_REGISTRY[kpi_config.id].required_inputs)
    IN  /\ \E f \in ins : e.confidence_discount = DiscountOfField(f)
        /\ \A f \in ins : e.confidence_discount <= DiscountOfField(f)
        /\ e.adjusted_impact = e.raw_impact * e.confidence_discount
        /\ e.weighted_impact = e.adjusted_impact * kpi_config.weight

\* setting any one input of the KPI to any lower tier does not increase the
\* adjusted impact of its entry e in scenario sc
LoweringNeverIncreases(e, kpi_config, sc) ==
    \A f \in SeqToSet(_REGISTRY[kpi_config.id].required_inputs) :
        \A t \in DataSourceTier :
            _TIER_RANK[t] < _TIER_RANK[company_data.data[f][1].confidence_tier] =>
                _calculate_single_kpi(WithTier(f, t), kpi_config, methodology,
                                      sc).adjusted_impact
                   <= e.adjusted_impact

\* with no inputs at all the multiplier is the estimated discount
NoInputsGivesEstimated ==
    _compute_confidence(<<>>, methodology) = methodology.confidence_discounts["estimated"]

\* C14 as stated: the discount of a non-skipped entry is the minimum discount
\* over the KPI's inputs, adjusted = raw x discount, weighted = adjusted x
\* weight, and lowering any one input's tier never increases adjusted_impact.
C14_Original ==
    \A k \in 1..Len(scenario_results) :
        LET sr == scenario_results[k]
        IN  \A i \in 1..Len(sr.kpi_results) :
                ~sr.kpi_results[i].skipped =>
                    /\ DiscountIsWeakestLink(sr.kpi_results[i], EnabledConfigs[i])
                    /\ NoInputsGivesEstimated
                    /\ LoweringNeverIncreases(sr.kpi_results[i], EnabledConfigs[i],
                                              sr.scenario)

\* the methodology's discounts do not decrease as the tier rises
DiscountsOrdered ==
    \A t1, t2 \in DataSourceTier :
        _TIER_RANK[t1] <= _TIER_RANK[t2] =>
            methodology.confidence_discounts[t1] <= methodology.confidence_discounts[t2]

\* C14 amended: the discount of a non-skipped entry is the minimum discount
\* over the KPI's inputs (the estimated discount with no inputs), adjusted =
\* raw x discount, weighted = adjusted x weight; when the methodology's
\* discounts are ordered by tier, lowering one input's tier never increases
\* adjusted_impact.
C14_WeakestLinkDiscount ==
    \A k \in 1..Len(scenario_results) :
        LET sr == scenario_results[k]
        IN  \A i \in 1..Len(sr.kpi_results) :
                ~sr.kpi_results[i].skipped =>
                    /\ DiscountIsWeakestLink(sr.kpi_results[i], EnabledConfigs[i])
                    /\ NoInputsGivesEstimated
                    /\ DiscountsOrdered =>
                          LoweringNeverIncreases(sr.kpi_results[i], EnabledConfigs[i],
                                                 sr.scenario)

\* support_cost_savings computed from an estimated and a company-reported
\* input under the default discounts: the estimated discount 0.4 governs
C14_Witness ==
    /\ Len(scenario_results) >= 1
    /\ DiscountsOrdered
    /\ \E i \in 1..Len(scenario_results[1].kpi_results) :
          LET e == scenario_results[1].kpi_results[i]
          IN  /\ e.kpi_id = "support_cost_savings"
              /\ ~e.skipped
              /\ e.input_tiers["current_support_contacts"] = "company_reported"
              /\ e.input_tiers["cost_per_contact"] = "estimated"
              /\ e.raw_impact > 0
              /\ e.confidence_discount = 4
              /\ e.adjusted_impact = 4 * e.raw_impact

\* the non-skipped entries of a scenario, and those of one category
Computed(sr) == SelectSeq(sr.kpi_results, LAMBDA e : ~e.skipped)

ComputedIn(sr, cat) == SelectSeq(sr.kpi_results, LAMBDA e : ~e.skipped /\ e.category = cat)

SumAdjusted(entries) == SumSeq([i \in 1..Len(entries) |-> entries[i].adjusted_impact])

SumWeighted(entries) == SumSeq([i \in 1..Len(entries) |-> entries[i].weighted_impact])

RECURSIVE SumValues(_)
\* the sum of the values of a dict
SumValues(d) ==
    IF DOMAIN d = {} THEN 0
    ELSE LET key == CHOOSE x \in DOMAIN d : TRUE
         IN  d[key] + SumValues([x \in DOMAIN d \ {key} |-> d[x]])

\* C15: total_annual_impact is the sum of weighted_impact and
\* total_annual_impact_unweighted the sum of adjusted_impact over the
\* non-skipped entries; skipped entries contribute zero; impact_by_category
\* has, for the categories of non-skipped entries only, the sum of their
\* adjusted_impact, and its values sum to the unweighted total.
C15_TotalsAreSums ==
    \A k \in 1..Len(scenario_results) :
        LET sr == scenario_results[k]
        IN  /\ sr.total_annual_impact = SumWeighted(Computed(sr))
            /\ sr.total_annual_impact_unweighted = SumAdjusted(Computed(sr))
            /\ \A i \in 1..Len(sr.kpi_results) :
                  sr.kpi_results[i].skipped =>
                     /\ sr.kpi_results[i].adjusted_impact = 0
                     /\ sr.kpi_results[i].weighted_impact = 0
            /\ DOMAIN sr.impact_by_category =
                  {Computed(sr)[i].category : i \in 1..Len(Computed(sr))}
            /\ \A cat \in DOMAIN sr.impact_by_category :
                  sr.impact_by_category[cat] = SumAdjusted(ComputedIn(sr, cat))
            /\ SumValues(sr.impact_by_category) = sr.total_annual_impact_unweighted

\* one KPI computed and one skipped: the only category is the computed one's
C15_Witness ==
    /\ Len(scenario_results) >= 1
    /\ Len(scenario_results[1].kpi_results) = 2
    /\ scenario_results[1].kpi_results[1].skipped
    /\ ~scenario_results[1].kpi_results[2].skipped
    /\ scenario_results[1].kpi_results[2].weight = 50
    /\ scenario_results[1].total_annual_impact_unweighted > 0
    /\ scenario_results[1].total_annual_impact
          = 50 * scenario_results[1].total_annual_impact_unweighted
    /\ DOMAIN scenario_results[1].impact_by_category
          = {scenario_results[1].kpi_results[2].category}

\* the projected impacts of years 1..i of a scenario
ProjectedUpTo(sr, i) == [j \in 1..i |-> sr.year_projections[j].projected_impact]

\* C16: year_projections has len(realization_curve) entries; entry i has
\* year i, the curve's i-th percentage, projected_impact = unweighted total x
\* that percentage and cumulative_impact = the sum of the projected impacts
\* of years 1..i; cumulative_3yr_impact is the last cumulative_impact and
\* the sum of all projected impacts.
C16_ProjectionFollowsCurve ==
    \A k \in 1..Len(scenario_results) :
        LET sr == scenario_results[k]
            curve == methodology.realization_curve
            n == Len(sr.year_projections)
        IN  /\ n = Len(curve)
            /\ \A i \in 1..n :
                  LET p == sr.year_projections[i]
                  IN  /\ p.year = i
                      /\ p.realization_percentage = curve[i]
                      /\ p.projected_impact = sr.total_annual_impact_unweighted * curve[i]
                      /\ p.cumulative_impact = SumSeq(ProjectedUpTo(sr, i))
            /\ n >= 1
            /\ sr.cumulative_3yr_impact = sr.year_projections[n].cumulative_impact
            /\ sr.cumulative_3yr_impact = SumSeq(ProjectedUpTo(sr, n))

\* a two-year curve (1.0, 1.0) and a positive total: two entries, the
\* cumulative impact twice the total
C16_Witness ==
    /\ cpc = "returned"
    /\ methodology.realization_curve = <<10, 10>>
    /\ scenario_results[2].total_annual_impact_unweighted > 0
    /\ Len(scenario_results[2].year_projections) = 2
    /\ scenario_results[2].cumulative_3yr_impact
          = 20 * scenario_results[2].total_annual_impact_unweighted

\* the record has an engagement_cost DataPoint whose value is a number > 0
HasPositiveCost ==
    /\ company_data.data["engagement_cost"] # None
    /\ company_data.data["engagement_cost"][1].value.type = "float"
    /\ company_data.data["engagement_cost"][1].value.num > 0

\* the engagement cost as a number
CostValue == company_data.data["engagement_cost"][1].value.num

\* C17: roi_percentage and roi_multiple are set iff the record has an
\* engagement_cost DataPoint with a strictly positive value, and are then
\* (total_unweighted - cost) / cost x 100 and total_unweighted / cost; with
\* the cost absent, zero or negative both are unset and so is the scenario's
\* engagement_cost, in every scenario alike.  The unweighted total is in
\* hundredths; a ratio is the pair <<numerator, denominator>>.
C17_RoiIffPositiveCost ==
    \A k \in 1..Len(scenario_results) :
        LET sr == scenario_results[k]
        IN  IF HasPositiveCost
            THEN /\ sr.engagement_cost = Some(CostValue)
                 /\ sr.roi_percentage # None
                 /\ sr.roi_multiple # None
                 \* roi_percentage = (total / 100 - cost) / cost x 100
                 /\ sr.roi_percentage[1][1] * CostValue
                       = (sr.total_annual_impact_unweighted - 100 * CostValue)
                            * sr.roi_percentage[1][2]
                 \* roi_multiple = (total / 100) / cost
                 /\ sr.roi_multiple[1][1] * 100 * CostValue
                       = sr.total_annual_impact_unweighted * sr.roi_multiple[1][2]
                 /\ sr.roi_percentage[1][2] # 0
                 /\ sr.roi_multiple[1][2] # 0
            ELSE /\ sr.roi_percentage = None
                 /\ sr.roi_multiple = None
                 /\ sr.engagement_cost = None

\* a zero engagement cost: the run returns and no scenario has an ROI
C17_Witness ==
    /\ cpc = "returned"
    /\ company_data.data["engagement_cost"] # None
    /\ CostValue = 0
    /\ company_data.data["engagement_cost"][1].value.type = "float"
    /\ scenario_results[1].total_annual_impact_unweighted > 0
    /\ \A k \in 1..3 : scenario_results[k].roi_percentage = None

\* the union of the declared input names of the enabled KPIs
RequiredSet ==
    UNION {SeqToSet(EnabledConfigs[i].inputs) : i \in 1..Len(EnabledConfigs)}

\* the populated fields of the record
PopulatedFields == {f \in CalcFields : company_data.data[f] # None}

\* a sequence lists exactly the elements of a set, once each
Lists(s, S) == SeqToSet(s) = S /\ Len(s) = Cardinality(S)

\* C18: the required set is the union of the input names of the enabled
\* KPIs; missing_inputs and available_inputs are disjoint and together are
\* that set; data_completeness = |required and available| / |required| (1.0
\* when nothing is required), in [0,1]; a missing-inputs warning is present
\* iff missing_inputs is non-empty; and the run still produces all three
\* scenarios.
C18_CompletenessReport ==
    /\ cpc # "start" => pre[1].required = RequiredSet
    /\ cpc # "start" => cpc # "raised"
    /\ cpc = "returned" =>
          LET r == result[1]
              n == Cardinality(RequiredSet \cap PopulatedFields)
              d == Cardinality(RequiredSet)
          IN  /\ Lists(r.missing_inputs, RequiredSet \ PopulatedFields)
              /\ Lists(r.available_inputs, RequiredSet \cap PopulatedFields)
              /\ SeqToSet(r.missing_inputs) \cap SeqToSet(r.available_inputs) = {}
              /\ SeqToSet(r.missing_inputs) \cup SeqToSet(r.available_inputs) = RequiredSet
              /\ r.data_completeness[2] > 0
              /\ IF d = 0 THEN r.data_completeness[1] = r.data_completeness[2]
                 ELSE r.data_completeness[1] * d = n * r.data_completeness[2]
              /\ 0 <= r.data_completeness[1]
              /\ r.data_completeness[1] <= r.data_completeness[2]
              /\ (r.warnings # <<>>) <=> (r.missing_inputs # <<>>)
              /\ r.warnings # <<>> => r.warnings = <<r.missing_inputs>>
              /\ DOMAIN r.scenarios = ScenarioNames

(***************************************************************************)
(* Methodology validation: properties                                      *)
(***************************************************************************)
\* the weights of the enabled KPIs of a configuration, and their sum
EnabledWeights(config) ==
    LET en == SelectSeq(config.kpis, LAMBDA k : k.enabled)
    IN  [i \in 1..Len(en) |-> en[i].weight]

EnabledWeightSum(config) == SumSeq(EnabledWeights(config))

\* the sum is 1.0 within 0.01, in hundredths
SumsToOne(config) == 99 <= EnabledWeightSum(config) /\ EnabledWeightSum(config) <= 101

\* validation raised and no calculation began
RejectedBeforeCalculation ==
    /\ cpc = "rejected"
    /\ error = "ValidationError"
    /\ methodology = None
    /\ pre = None
    /\ scenario_results = <<>>
    /\ result = None

\* validation accepted the file's configuration
Accepted == cpc \notin {"load", "rejected"}

\* C19 as stated: every configuration whose enabled weights do not sum to 1.0
\* within 0.01 is rejected before any calculation, and every accepted
\* configuration has enabled weights summing to a value in [0.99, 1.01].
C19_Original ==
    /\ (cpc # "load" /\ ~SumsToOne(raw)) => RejectedBeforeCalculation
    /\ Accepted => SumsToOne(methodology)

\* C19 amended: the same for every configuration with at least one enabled
\* KPI; with no enabled KPI the weights are not checked.
C19_WeightsSumToOne ==
    /\ (cpc # "load" /\ EnabledWeights(raw) # <<>> /\ ~SumsToOne(raw))
          => RejectedBeforeCalculation
    /\ (Accepted /\ EnabledWeights(methodology) # <<>>) => SumsToOne(methodology)
    /\ cpc = "rejected" => RejectedBeforeCalculation

\* an enabled KPI of weight 0.5 and a disabled one of weight 0.5: all the
\* weights sum to 1.0, the enabled ones do not, and the file is rejected
C19_Witness ==
    /\ cpc = "rejected"
    /\ Len(raw.kpis) = 2
    /\ raw.kpis[1].enabled /\ raw.kpis[1].weight = 50
    /\ ~raw.kpis[2].enabled /\ raw.kpis[2].weight = 50
    /\ raw.realization_curve = V1Curve

\* a curve is non-empty, every value is in (0, 1.0] (tenths) and no value is
\* below the one before it
CurveWellFormed(curve) ==
    /\ curve # <<>>
    /\ \A i \in 1..Len(curve) : curve[i] > 0 /\ curve[i] <= 10
    /\ \A i \in 1..Len(curve), j \in 1..Len(curve) : i < j => curve[i] <= curve[j]

\* every KPI's triple has conservative <= moderate <= aggressive
TriplesOrdered(config) ==
    \A i \in 1..Len(config.kpis) :
        /\ config.kpis[i].benchmark_ranges.conservative
              <= config.kpis[i].benchmark_ranges.moderate
        /\ config.kpis[i].benchmark_ranges.moderate
              <= config.kpis[i].benchmark_ranges.aggressive

\* C20: validation accepts a configuration only if its curve is non-empty,
\* within (0, 1], non-decreasing and every KPI's triple is ordered; a
\* violation makes validation fail, the accepted configuration is the file's,
\* unchanged, and calculate only sees such curves and triples.
C20_CurveAndTriplesValidated ==
    /\ (cpc # "load" /\ ~(CurveWellFormed(raw.realization_curve) /\ TriplesOrdered(raw)))
          => RejectedBeforeCalculation
    /\ Accepted =>
          /\ methodology = raw
          /\ CurveWellFormed(methodology.realization_curve)
          /\ TriplesOrdered(methodology)
    /\ pre # None =>
          /\ CurveWellFormed(methodology.realization_curve)
          /\ TriplesOrdered(methodology)
    /\ \A k \in 1..Len(scenario_results) :
          Len(scenario_results[k].year_projections) >= 1

\* a decreasing curve (0.7, 0.4) with an otherwise valid file is rejected
C20_Witness ==
    /\ cpc = "rejected"
    /\ raw.realization_curve = <<7, 4>>
    /\ Len(raw.kpis) = 1
    /\ raw.kpis[1].weight = 100
    /\ raw.kpis[1].enabled
    /\ TriplesOrdered(raw)

\* C21: for every non-skipped entry raw_impact >= 0, 0 <= adjusted_impact <=
\* raw_impact and 0 <= weighted_impact <= adjusted_impact; every scenario
\* total and every projected and cumulative impact is non-negative.  raw is
\* in tenths, adjusted in hundredths, weighted in ten-thousandths.
C21_ImpactsNonNegative ==
    \A k \in 1..Len(scenario_results) :
        LET sr == scenario_results[k]
        IN  /\ \A i \in 1..Len(sr.kpi_results) :
                  LET e == sr.kpi_results[i]
                  IN  ~e.skipped =>
                         /\ e.raw_impact >= 0
                         /\ 0 <= e.adjusted_impact
                         /\ e.adjusted_impact <= 10 * e.raw_impact
                         /\ 0 <= e.weighted_impact
                         /\ e.weighted_impact <= 100 * e.adjusted_impact
            /\ sr.total_annual_impact >= 0
            /\ sr.total_annual_impact_unweighted >= 0
            /\ sr.cumulative_3yr_impact >= 0
            /\ \A i \in 1..Len(sr.year_projections) :
                  /\ sr.year_projections[i].projected_impact >= 0
                  /\ sr.year_projections[i].cumulative_impact >= 0

\* an estimated input and a weight of 0.5: weighted < adjusted < raw, all
\* positive, while another field of the record is negative
C21_Witness ==
    /\ cpc = "returned"
    /\ company_data.data["current_support_contacts"] # None
    /\ company_data.data["current_support_contacts"][1].value = Num(-1)
    /\ \E i \in 1..Len(scenario_results[1].kpi_results) :
          LET e == scenario_results[1].kpi_results[i]
          IN  /\ ~e.skipped
              /\ e.confidence_discount = 4
              /\ e.weight = 50
              /\ 0 < e.weighted_impact
              /\ e.weighted_impact < 100 * e.adjusted_impact
              /\ e.adjusted_impact < 10 * e.raw_impact

\* the fields named by the 'Missing required inputs' skip reasons of a run
FieldsNamedMissing ==
    UNION {UNION {SeqToSet(scenario_results[k].kpi_results[i].skip_reason[1].fields) :
                     i \in {j \in 1..Len(scenario_results[k].kpi_results) :
                               /\ scenario_results[k].kpi_results[j].skipped
                               /\ scenario_results[k].kpi_results[j].skip_reason[1].kind
                                     = "missing"}} :
           k \in 1..Len(scenario_results)}

\* C23: the completeness report and the skip decisions agree: when
\* missing_inputs is empty (data_completeness = 1.0) no KPI of any scenario is
\* skipped for missing required inputs, and every field named in a 'Missing
\* required inputs' skip reason is listed in missing_inputs.
C23_ReportAgreesWithSkips ==
    cpc = "returned" =>
        /\ result[1].missing_inputs = <<>> =>
              /\ result[1].data_completeness[1] = result[1].data_completeness[2]
              /\ FieldsNamedMissing = {}
        /\ FieldsNamedMissing \subseteq SeqToSet(result[1].missing_inputs)

\* the conflict entries of field f, in the order they were recorded
ChainOf(f) == SelectSeq(conflicts, LAMBDA c : c.field_name = f)

\* C22: the conflict entries of a field form a chain: chosen_value is the
\* entry's primary_value or secondary_value, primary_value is the previous
\* entry's chosen_value (the value of the first record holding the field for
\* the first entry), and the merged value is the last entry's chosen_value.
C22_ConflictChain ==
    pc = "merged" =>
        \A f \in Fields :
            LET chain == ChainOf(f)
            IN  /\ \A k \in 1..Len(chain) :
                      /\ chain[k].chosen_value \in
                            {chain[k].primary_value, chain[k].secondary_value}
                      /\ chain[k].primary_value =
                            IF k = 1
                            THEN inputs[Earliest(Holders(f))].data[f][1].value
                            ELSE chain[k - 1].chosen_value
                /\ chain # <<>> =>
                      heap[merged].data[f][1].value = chain[Len(chain)].chosen_value

\* three records hold the field with three values; the first secondary
\* overturns the primary and the second entry starts from its value
C22_Witness ==
    /\ pc = "merged"
    /\ Len(ChainOf("annual_revenue")) = 2
    /\ ChainOf("annual_revenue")[1].primary_value = Num(100)
    /\ ChainOf("annual_revenue")[1].chosen_value = Num(110)
    /\ ChainOf("annual_revenue")[2].primary_value = Num(110)
    /\ ChainOf("annual_revenue")[2].secondary_value = Num(120)
    /\ ChainOf("annual_revenue")[2].chosen_value = Num(110)
    /\ Len(ChainOf("online_revenue")) >= 1

(***************************************************************************)
(* Data gathering: properties                                              *)
(***************************************************************************)
\* the primary provider's fetch was called and raised
PrimaryFetchRaised ==
    /\ Len(calls) >= 1
    /\ calls[1].provider \in {"valyu", "firecrawl"}
    /\ ~calls[1].ok

\* C24: when the primary provider's fetch raises, gather does not raise: it
\* goes on to ask the remaining provider and returns a (merged, conflicts)
\* pair whose record carries the requested company name.
C24_GatherSurvivesPrimaryFailure ==
    PrimaryFetchRaised =>
        /\ gather_error = ""
        /\ gpc # "raised"
        /\ gpc = "done" =>
              /\ gathered # None
              /\ gathered[1].merged.company_name = company_name

(***************************************************************************)
(* StreamManager: properties                                               *)
(***************************************************************************)
\* the queues subscribed to a case
SubscribedTo(case_id) == {q \in Clients : \E i \in 1..Len(_subscribers[case_id]) :
                                              _subscribers[case_id][i] = q}

\* a step in which the pipeline of the case emitted an event
EmitStep(case_id) == _seq'[case_id] # _seq[case_id] \/ finished'[case_id] # finished[case_id]

\* the event of that step
Emitted(case_id) ==
    IF _seq'[case_id] = _seq[case_id]
    THEN [event_type |-> "pipeline_error", sequence_id |-> 999]
    ELSE [event_type |-> IF finished'[case_id] THEN "pipeline_completed"
                         ELSE "data_fetch_progress",
          sequence_id |-> _seq'[case_id]]

\* the sequence_ids the pipeline of the case has emitted so far, in order
EmittedIds(case_id) ==
    [i \in 1..Len(_buffers[case_id]) |-> IF i <= _seq[case_id] THEN i ELSE 999]

\* s is t[from..], up to some position
IsSegment(s, t) ==
    \E from \in 1..(Len(t) + 1) :
        /\ from + Len(s) - 1 <= Len(t)
        /\ \A i \in 1..Len(s) : s[i] = t[from + i - 1]

IsSuffix(s, t) ==
    /\ Len(s) <= Len(t)
    /\ \A i \in 1..Len(s) : s[i] = t[Len(t) - Len(s) + i]

\* emit appends the event to the buffer of its case and to the queue of
\* every subscriber of that case, and touches nothing else
EmitDelivers ==
    \A c \in Cases :
        EmitStep(c) =>
            /\ _buffers' = [_buffers EXCEPT ![c] = Append(@, Emitted(c))]
            /\ \A q \in Clients :
                  queues'[q] = IF q \in SubscribedTo(c)
                               THEN Append(queues[q], Emitted(c))
                               ELSE queues[q]

\* the buffer of a case is the sequence of the events emitted for it, and
\* what waits in a queue is a run of that sequence, in emit order, up to
\* the latest event while the queue is subscribed
BufferIsHistory ==
    /\ \A c \in Cases :
          /\ Len(_buffers[c]) \in {_seq[c], _seq[c] + 1}
          /\ Len(_buffers[c]) = _seq[c] + 1 => finished[c]
          /\ \A i \in 1..Len(_buffers[c]) :
                /\ _buffers[c][i].sequence_id = EmittedIds(c)[i]
                /\ (_buffers[c][i].event_type \in {"pipeline_completed", "pipeline_error"})
                      <=> (finished[c] /\ i = Len(_buffers[c]))
    /\ \A q \in Clients :
          gens[q].pc # "new" =>
              /\ IsSegment(queues[q], _buffers[gens[q].case_id])
              /\ \A c \in Cases \ {gens[q].case_id} : q \notin SubscribedTo(c)
              /\ (q \in SubscribedTo(gens[q].case_id) /\ queues[q] # <<>>) =>
                    IsSuffix(queues[q], _buffers[gens[q].case_id])

\* C25: emit(case_id, event) appends the event to the case's buffer and puts
\* it on the queue of every subscriber of that case and on no other queue;
\* every queue holds the case's events in emit order and the buffer is the
\* full sequence of the events emitted for the case.
C25_EmitBuffersAndBroadcasts == []BufferIsHistory /\ [][EmitDelivers]_vars

\* two events were emitted for case-1 while one client was subscribed to
\* it and the other to case-2
C25_Witness ==
    /\ Len(_buffers["case-1"]) = 2
    /\ gens[1].pc = "subscribed" /\ gens[1].case_id = "case-1"
    /\ queues[1] = _buffers["case-1"]
    /\ gens[2].pc = "subscribed" /\ gens[2].case_id = "case-2"
    /\ queues[2] = <<>>

\* the queue is in the subscriber list of some case
IsSubscribed(q) == \E c \in Cases : q \in SubscribedTo(c)

\* a client whose generator has exited, or that called unsubscribe for the
\* case it had subscribed to
HasLeft(q) ==
    \/ gens[q].pc = "closed"
    \/ gens[q].kind = "direct" /\ gens[q].pc = "unsubscribed"

\* no subscriber list holds the queue of a client that has left
NoQueueRetained == \A q \in Clients : HasLeft(q) => ~IsSubscribed(q)

\* a queue that is in no subscriber list receives nothing
NothingPutAfterUnsubscribe ==
    \A q \in Clients :
        (queues'[q] # queues[q] /\ ~IsSubscribed(q)) => Len(queues'[q]) < Len(queues[q])

\* when a queue leaves the list of a case, the other queues stay in it in
\* the same order and no other queue and no buffer changes
OthersUnaffected ==
    \A c \in Cases :
        (_subscribers'[c] # _subscribers[c] /\ Len(_subscribers'[c]) <= Len(_subscribers[c])) =>
            \E q \in SubscribedTo(c) :
                /\ _subscribers'[c] = SelectSeq(_subscribers[c], LAMBDA x : x # q)
                /\ \A d \in Cases \ {c} : _subscribers'[d] = _subscribers[d]
                /\ \A p \in Clients \ {q} : queues'[p] = queues[p]
                /\ UNCHANGED _buffers

\* unsubscribe(case_id, queue) for a queue that is not in that case's list
\* changes nothing
UnsubscribeOfStrangerIsNoOp ==
    \A q \in Clients, c \in Cases :
        q \notin SubscribedTo(c) => unsubscribe(_subscribers, c, q) = _subscribers

\* C26: once unsubscribe(case_id, queue) has returned no later event is put
\* on that queue, the other subscribers of the case are unaffected, and
\* unsubscribing a queue that is not subscribed changes nothing; a generator
\* that exits unsubscribes its own queue, so no subscriber list retains the
\* queue of a finished generator.
C26_UnsubscribeStopsDelivery ==
    /\ [](NoQueueRetained /\ UnsubscribeOfStrangerIsNoOp)
    /\ [][NothingPutAfterUnsubscribe /\ OthersUnaffected]_vars

\* a generator exited, then an event was emitted for its case and reached
\* the other subscriber only
C26_Witness ==
    /\ gens[1].pc = "closed" /\ gens[1].case_id = "case-1"
    /\ ~IsSubscribed(1)
    /\ queues[1] = <<>>
    /\ 2 \in SubscribedTo("case-1")
    /\ Len(queues[2]) = 1 /\ Len(_buffers["case-1"]) = 1

\* the generators started with a last_event_id
Reconnected == {q \in Clients : gens[q].kind = "generator" /\ gens[q].last_event_id # None}

\* the events of the first n positions of a buffer that a reconnect with
\* last_event_id = k must be sent again
MissedUpTo(buf, k, n) ==
    SelectSeq(SubSeq(buf, 1, n), LAMBDA e : e.sequence_id > k)

PositionOf(buf, e) == CHOOSE i \in 1..Len(buf) : buf[i] = e

InReplay(q) == gens[q].pc \in {"heartbeat", "replay"}

\* the generator yields without taking anything from its queue
ReplayYield(q) == Len(gens'[q].out) = Len(gens[q].out) + 1 /\ queues'[q] = queues[q]

\* the generator yields the head of its queue
LiveYield(q) ==
    /\ queues[q] # <<>>
    /\ queues'[q] = Tail(queues[q])
    /\ gens'[q].out = Append(gens[q].out, Head(queues[q]))

\* the first thing a generator yields is the heartbeat
HeartbeatFirst ==
    \A q \in Clients :
        (gens[q].kind = "generator" /\ gens[q].pc # "closed") =>
            /\ Len(gens[q].out) >= 1
            /\ gens[q].out[1] = ": connected"

\* what has been yielded after the heartbeat, up to the end of the replay,
\* is the buffer so far without the events at or below last_event_id
ReplayIsMissedEvents ==
    \A q \in Reconnected :
        LET buf == _buffers[gens[q].case_id]
            k == gens[q].last_event_id[1]
        IN  /\ ReplayYield(q) =>
                  LET e == gens'[q].out[Len(gens'[q].out)]
                  IN  /\ InReplay(q)
                      /\ \E i \in 1..Len(buf) : buf[i] = e
                      /\ Tail(gens'[q].out) = MissedUpTo(buf, k, PositionOf(buf, e))
            /\ (InReplay(q) /\ ~InReplay(q)' /\ gens'[q].pc # "closed") =>
                  Tail(gens[q].out) = MissedUpTo(buf, k, Len(buf))

\* events are taken from the queue only once the replay is over
LiveAfterReplay ==
    \A q \in Reconnected :
        (Len(gens'[q].out) > Len(gens[q].out) /\ ~InReplay(q)) => LiveYield(q)

YieldedIds(q) == [i \in 1..(Len(gens[q].out) - 1) |-> gens[q].out[i + 1].sequence_id]

\* C28: whatever the interleaving of emit with a running event_generator,
\* the generator yields no event twice and yields events in strictly
\* increasing sequence_id order.
C28_NoDuplicateInOrder ==
    \A q \in Clients :
        gens[q].kind = "generator" =>
            \A i, j \in 1..(Len(gens[q].out) - 1) :
                i < j => YieldedIds(q)[i] < YieldedIds(q)[j]

(***************************************************************************)
(* Archived StreamManager: properties                                      *)
(***************************************************************************)
\* the generator is past its replay loop and its client has not left
PastReplay(q) == gens[q].kind = "generator" /\ gens[q].pc \in {"live", "waiting", "done"}

\* the sequence_ids the generator has yielded or still has in its queue
IdsSeenOrQueued(q) ==
    {gens[q].out[i].sequence_id : i \in 2..Len(gens[q].out)}
        \cup {queues[q][i].sequence_id : i \in 1..Len(queues[q])}

\* C29: the archived generator always replays: a client that connects with
\* no last_event_id is sent every event emitted for the case before it
\* connected, a client that reconnects with last_event_id = k every event
\* with sequence_id > k, whatever other clients of the case subscribed and
\* unsubscribed in between.
C29_AlwaysReplays ==
    \A q \in Clients :
        PastReplay(q) =>
            \A id \in 1.._seq[gens[q].case_id] :
                (gens[q].last_event_id = None \/ id > gens[q].last_event_id[1])
                    => id \in IdsSeenOrQueued(q)

IsTerminal(e) == e.event_type \in {"pipeline_completed", "pipeline_error"}

\* the terminal event is the last thing the generator yielded, if it
\* yielded it at all
NothingAfterTerminal(q) ==
    \A i \in 2..Len(gens[q].out) : IsTerminal(gens[q].out[i]) => i = Len(gens[q].out)

\* the generator waits in queue.get() on an empty queue although the
\* pipeline of its case has emitted its last event
WaitsForever(q) ==
    /\ gens[q].pc = "waiting"
    /\ queues[q] = <<>>
    /\ finished[gens[q].case_id]

\* C30: once PIPELINE_COMPLETED or PIPELINE_ERROR has been emitted for a
\* case, every archived generator of the case, connected before or after,
\* yields the terminal event, yields nothing after it, ends and unsubscribes
\* its queue; none is left waiting for an event that will never come.
C30_StopsAfterTerminal ==
    \A q \in Clients :
        gens[q].kind = "generator" =>
            /\ NothingAfterTerminal(q)
            /\ ~WaitsForever(q)
            /\ gens[q].pc = "done" =>
                  /\ IsTerminal(gens[q].out[Len(gens[q].out)])
                  /\ \A c \in Cases : \A i \in 1..Len(_subscribers[c]) : _subscribers[c][i] # q

====
